---- MODULE Spec2Model ----
(***************************************************************************)
(* Model of the pickle video player: the frame-buffer lifecycle of the     *)
(* playback loop (pickle.c), the decoder buffer source (hw_decoder.c), the *)
(* import/composite stage (gpu_renderer.c), the presentation cycle and the *)
(* surface negotiation (display_output.c).                                 *)
(*                                                                         *)
(* External libraries (FFmpeg, EGL, GBM, DRM) are the environment: every   *)
(* call into them takes its outcome from a small set with \E.              *)
(***************************************************************************)
EXTENDS Integers, Sequences, FiniteSets

(* ------------------------------ bounds --------------------------------- *)
\* number of video packets in the input file
NumPackets == 3
\* packets the decoder accepts before avcodec_send_packet answers EAGAIN
DecCapacity == 1
\* iterations of the start-up test pattern loop (180 in the program)
TestFrames == 1

(* --------------------------- program constants ------------------------- *)
HW_DECODER_OK == 0
HW_DECODER_ERROR == -1
HW_DECODER_EAGAIN == -2
HW_DECODER_EOF == -3
GPU_RENDERER_OK == 0
GPU_RENDERER_ERROR == -1
DISPLAY_OUTPUT_OK == 0
DISPLAY_OUTPUT_ERROR == -1
NULL == 0
\* pickle.c:348  max_attempts = (packet_count <= 10) ? 20 : 5
PatientPackets == 10
PatientAttempts == 20
NormalAttempts == 5

AV_PIX_FMT_DRM_PRIME == "DRM_PRIME"
AV_PIX_FMT_NV12 == "NV12"
AV_PIX_FMT_YUV420P == "YUV420P"

(* ------------------------------ state ---------------------------------- *)
VARIABLES
    pc,            \* position of the main thread
    running,       \* g_player_state.running
    testIdx,       \* loop variable i of the test pattern loop in init_pipeline
    nextPkt,       \* demuxer position: id of the next packet av_read_frame yields
    packet,        \* frame_packet_t packet of run_playback_loop
    packet_count,  \* local packet_count of run_playback_loop
    attempts,      \* local attempts of run_playback_loop
    livePackets,   \* AVPackets allocated by video_input_read_packet, not yet freed
    dec,           \* hw_decoder_ctx: codec queue, ctx->frame, frames_decoded
    clones,        \* picture buffers referenced by a cloned AVFrame (frame->av_frame)
    frame,         \* decoded_frame_t frame of run_playback_loop
    temp_frame,    \* decoded_frame_t temp_frame of the backpressure branch
    rend,          \* gpu_renderer_ctx and what its last render call did
    disp,          \* display_output_ctx: configured, mode_set, statistics
    neg,           \* surface negotiation: init_gbm + init_egl and their environment
    warp,          \* warp_control_ctx, warp_config.txt, and what the last call did
    modeSel,       \* mode selection: connector modes, request, ctx->mode
    fileLen,       \* number of video packets in the open input file
    boot,          \* main: position in init_pipeline, contexts created, exit path
    srcFrame,      \* the AVFrame ctx->frame held when the descriptor was filled
    drm,           \* display_ctx_t of drm_display.c and the buffers of its surface
    acquired,      \* history: pictures hw_decoder_get_frame returned with OK, in order
    releaseCount,  \* history: hw_decoder_release_frame calls per picture
    presented,     \* history: pictures held by the loop at each present call
    submitted,     \* history: packets accepted by hw_decoder_submit_packet, in order
    backpressured, \* history: packets for which submit returned EAGAIN
    phases,        \* history: phases of the current loop iteration, in order
    useAfterRelease \* history: a render call got a descriptor that was released

vars == <<pc, running, testIdx, nextPkt, packet, packet_count, attempts,
          livePackets, dec, clones, frame, temp_frame, rend, disp, neg,
          warp, modeSel, fileLen, boot, srcFrame, drm,
          acquired, releaseCount, presented, submitted, backpressured,
          phases, useAfterRelease>>

Pics == 1..NumPackets

(* ======================================================================= *)
(*                        hw_decoder.c / hw_decoder.h                      *)
(* ======================================================================= *)

\* decoded_frame_t after `= {0}`
ZeroFrame ==
    [width |-> 0, height |-> 0, format |-> "NONE", timestamp_us |-> 0,
     dmabuf_fd |-> <<0, 0, 0>>, num_planes |-> 0,
     offsets |-> <<0, 0, 0>>, pitches |-> <<0, 0, 0>>, av_frame |-> NULL]

\* the file descriptor of object i of picture p in the decoder's
\* AVDRMFrameDescriptor; distinct per picture and plane, never negative
FdOf(p, i) == 10 * p + i

\* picture size of the stream, in pixels
VideoWidth == 4
VideoHeight == 2
\* row pitch of the decoder's buffers: the width rounded up to its alignment
AlignedPitch == 8
\* bytes between the start of two planes that share one object
PlaneSize == 16

DRM_FORMAT_NV12 == "NV12"
DRM_FORMAT_YUV420 == "YU12"

\* a DRM PRIME AVFrame: AVDRMFrameDescriptor with nb_objects objects and
\* nb_layers layers, layer 0 of format layer_format with nb_planes planes
DrmKind(nb_layers, nb_planes, nb_objects, layer_format) ==
    [pts |-> 0, width |-> VideoWidth, height |-> VideoHeight,
     format |-> AV_PIX_FMT_DRM_PRIME, desc |-> TRUE, nb_layers |-> nb_layers,
     nb_planes |-> nb_planes, nb_objects |-> nb_objects,
     layer_format |-> layer_format]

\* an AVFrame without a descriptor in data[0]: regular memory, or DRM PRIME
\* with data[0] == NULL
PlainKind(format) ==
    [pts |-> 0, width |-> VideoWidth, height |-> VideoHeight,
     format |-> format, desc |-> FALSE, nb_layers |-> 0,
     nb_planes |-> 0, nb_objects |-> 0, layer_format |-> "NONE"]

\* desc->layers[0].planes[i]: the object a plane lives in, its byte offset in
\* that object and its row pitch.  With one object per plane every plane
\* starts at offset 0 of its own object; with fewer objects the planes follow
\* one another in object 0.
object_index(avf, i) == IF avf.nb_objects >= avf.nb_planes THEN i ELSE 1
plane_offset(avf, i) == IF avf.nb_objects >= avf.nb_planes THEN 0 ELSE (i - 1) * PlaneSize
plane_pitch(avf, i) == AlignedPitch

\* The AVFrames avcodec_receive_frame delivers in the playback runs: regular
\* memory (NV12, YUV420P) or DRM PRIME, with or without a descriptor
FrameKinds ==
    { PlainKind(AV_PIX_FMT_NV12),
      PlainKind(AV_PIX_FMT_YUV420P),
      PlainKind(AV_PIX_FMT_DRM_PRIME),
      DrmKind(0, 0, 1, DRM_FORMAT_NV12),
      DrmKind(1, 1, 1, DRM_FORMAT_NV12),
      DrmKind(1, 2, 1, DRM_FORMAT_NV12),
      DrmKind(1, 4, 1, DRM_FORMAT_NV12) }

\* the same and the descriptors with one object per plane
AllFrameKinds ==
    FrameKinds \cup { DrmKind(1, 2, 2, DRM_FORMAT_NV12),
                      DrmKind(1, 3, 1, DRM_FORMAT_YUV420),
                      DrmKind(1, 3, 3, DRM_FORMAT_YUV420) }

\* hw_decoder_ctx after hw_decoder_create + hw_decoder_configure
DecInit == [pending |-> <<>>, ctx_frame |-> NULL, frames_decoded |-> 0, configured |-> 1]

\* hw_decoder_submit_packet: out is what avcodec_send_packet answered
hw_decoder_submit_packet(d, pkt, out) ==
    IF d.configured = 0 THEN [ret |-> HW_DECODER_ERROR, dec |-> d]
    ELSE IF out = "EAGAIN" THEN [ret |-> HW_DECODER_EAGAIN, dec |-> d]
    ELSE IF out = "ERROR" THEN [ret |-> HW_DECODER_ERROR, dec |-> d]
    ELSE [ret |-> HW_DECODER_OK, dec |-> [d EXCEPT !.pending = Append(@, pkt)]]

\* what avcodec_send_packet can answer in decoder state d
SendOutcomes(d) ==
    {"ERROR"} \cup (IF Len(d.pending) >= DecCapacity THEN {"EAGAIN"} ELSE {"OK"})

\* what avcodec_receive_frame and av_frame_clone can answer in decoder state
\* d: no frame yet, an error, or a frame of some kind (clone: whether
\* av_frame_clone could then allocate)
RecvOutcomes(d) ==
    { [out |-> o, kind |-> CHOOSE k \in FrameKinds : TRUE, clone |-> TRUE] :
        o \in {"EAGAIN", "ERROR"} }
    \cup (IF Len(d.pending) > 0
          THEN { [out |-> "FRAME", kind |-> k, clone |-> c] :
                   k \in FrameKinds, c \in BOOLEAN }
          ELSE {})

\* extract_dmabuf_from_frame: avf is ctx->frame (pts = the picture)
extract_dmabuf_from_frame(avf, df) ==
    IF avf.format = AV_PIX_FMT_DRM_PRIME
    THEN IF ~avf.desc
         THEN [ret |-> HW_DECODER_ERROR, frame |-> df]
         ELSE LET np == IF avf.nb_layers > 0 THEN avf.nb_planes ELSE 0
                  d1 == [df EXCEPT !.num_planes = np]
                  isSet(i) == i <= np /\ i <= avf.nb_objects
                  hasPlane(i) == isSet(i) /\ i <= avf.nb_planes
              IN  IF np > 3
                  THEN [ret |-> HW_DECODER_ERROR, frame |-> d1]
                  ELSE [ret |-> HW_DECODER_OK,
                        frame |-> [d1 EXCEPT
                            !.dmabuf_fd = [i \in 1..3 |->
                                IF isSet(i) THEN FdOf(avf.pts, i) ELSE df.dmabuf_fd[i]],
                            !.offsets = [i \in 1..3 |->
                                IF hasPlane(i) THEN plane_offset(avf, i) ELSE df.offsets[i]],
                            !.pitches = [i \in 1..3 |->
                                IF hasPlane(i) THEN plane_pitch(avf, i) ELSE df.pitches[i]],
                            !.format = AV_PIX_FMT_DRM_PRIME]]
    ELSE [ret |-> HW_DECODER_OK,
          frame |-> [df EXCEPT !.num_planes = 0,
                               !.dmabuf_fd = <<-1, -1, -1>>,
                               !.offsets = <<0, 0, 0>>,
                               !.pitches = <<0, 0, 0>>,
                               !.format = avf.format]]

\* hw_decoder_get_frame that counts the frame before av_frame_clone is
\* checked
hw_decoder_get_frame_countfirst(d, cl, df, out, kind, cloneOk) ==
    IF d.configured = 0
    THEN [ret |-> HW_DECODER_ERROR, dec |-> d, clones |-> cl, frame |-> df]
    ELSE IF out \in {"EAGAIN", "EOF", "ERROR"}
    THEN [ret |-> IF out = "EAGAIN" THEN HW_DECODER_EAGAIN
                  ELSE IF out = "EOF" THEN HW_DECODER_EOF ELSE HW_DECODER_ERROR,
          dec |-> [d EXCEPT !.ctx_frame = NULL], clones |-> cl, frame |-> df]
    ELSE LET pic == Head(d.pending)
             avf == [kind EXCEPT !.pts = pic]
             d1  == [d EXCEPT !.pending = Tail(@), !.ctx_frame = pic]
             f1  == [df EXCEPT !.width = avf.width, !.height = avf.height,
                               !.timestamp_us = pic]
             ex  == extract_dmabuf_from_frame(avf, f1)
             d2  == [d1 EXCEPT !.frames_decoded = @ + 1]
         IN  IF ex.ret < 0
             THEN [ret |-> ex.ret, dec |-> d1, clones |-> cl, frame |-> ex.frame]
             ELSE IF ~cloneOk
             THEN [ret |-> HW_DECODER_ERROR, dec |-> d2, clones |-> cl,
                   frame |-> [ex.frame EXCEPT !.av_frame = NULL]]
             ELSE [ret |-> HW_DECODER_OK, dec |-> d2, clones |-> cl \cup {pic},
                   frame |-> [ex.frame EXCEPT !.av_frame = pic]]

\* hw_decoder_get_frame on descriptor df: out is what avcodec_receive_frame
\* answered, kind the AVFrame it delivered, cloneOk whether av_frame_clone
\* could allocate.  cl is the set of pictures referenced by live clones.
hw_decoder_get_frame(d, cl, df, out, kind, cloneOk) ==
    IF d.configured = 0
    THEN [ret |-> HW_DECODER_ERROR, dec |-> d, clones |-> cl, frame |-> df]
    ELSE IF out = "EAGAIN"
    THEN [ret |-> HW_DECODER_EAGAIN, dec |-> [d EXCEPT !.ctx_frame = NULL],
          clones |-> cl, frame |-> df]
    ELSE IF out = "EOF"
    THEN [ret |-> HW_DECODER_EOF, dec |-> [d EXCEPT !.ctx_frame = NULL],
          clones |-> cl, frame |-> df]
    ELSE IF out = "ERROR"
    THEN [ret |-> HW_DECODER_ERROR, dec |-> [d EXCEPT !.ctx_frame = NULL],
          clones |-> cl, frame |-> df]
    ELSE LET pic == Head(d.pending)
             avf == [kind EXCEPT !.pts = pic]
             d1  == [d EXCEPT !.pending = Tail(@), !.ctx_frame = pic]
             f1  == [df EXCEPT !.width = avf.width, !.height = avf.height,
                               !.timestamp_us = pic]
             ex  == extract_dmabuf_from_frame(avf, f1)
         IN  IF ex.ret < 0
             THEN [ret |-> ex.ret, dec |-> d1, clones |-> cl, frame |-> ex.frame]
             ELSE IF ~cloneOk
             THEN [ret |-> HW_DECODER_ERROR, dec |-> d1, clones |-> cl,
                   frame |-> [ex.frame EXCEPT !.av_frame = NULL]]
             ELSE [ret |-> HW_DECODER_OK,
                   dec |-> [d1 EXCEPT !.frames_decoded = @ + 1],
                   clones |-> cl \cup {pic},
                   frame |-> [ex.frame EXCEPT !.av_frame = pic]]

\* hw_decoder_release_frame: the descriptor part
hw_decoder_release_frame(df) ==
    [df EXCEPT !.av_frame = NULL,
               !.dmabuf_fd = [i \in 1..3 |-> IF i <= df.num_planes THEN -1 ELSE df.dmabuf_fd[i]],
               !.num_planes = 0]

\* hw_decoder_release_frame without its av_frame_free
ReleaseClones_leak(cl, df) == cl

\* hw_decoder_release_frame: the picture buffers still referenced afterwards
ReleaseClones(cl, df) ==
    IF df.av_frame # NULL THEN cl \ {df.av_frame} ELSE cl

(* ======================================================================= *)
(*                 warp_control.c: the warp transform                      *)
(* ======================================================================= *)

WARP_CONTROL_OK == 0
WARP_CONTROL_ERROR == -1
WARP_CONTROL_UPDATED == 1

WARP_MODE_CORNERS == 0
WARP_MODE_MATRIX == 1
WARP_MODE_PERSPECTIVE == 2
WARP_MODE_KEYSTONE == 3

\* Floats are fixed-point here.  Coordinates, keystone coefficients and step
\* sizes count thousandths (1.0f is 1000); matrix entries count 1/4000, so
\* that `sum * 0.25f` and `k * 0.5f` stay whole numbers.
\* 1.0f as a coordinate
CoordOne == 1000
\* 1.0f as a matrix entry
MatrixOne == 4000
\* DEFAULT_STEP_SIZE 0.01f
DEFAULT_STEP_SIZE == 10
\* the bound 2.0f of the clamp in process_keyboard
CornerLimit == 2000

\* matrix_identity
matrix_identity == [i \in 0..15 |-> IF i \in {0, 5, 10, 15} THEN MatrixOne ELSE 0]

\* init_default_params; corners in the order top_left, top_right,
\* bottom_left, bottom_right, each <<x, y>>
init_default_params ==
    [mode |-> WARP_MODE_CORNERS,
     corners |-> << <<-CoordOne, -CoordOne>>, <<CoordOne, -CoordOne>>,
                    <<-CoordOne, CoordOne>>,  <<CoordOne, CoordOne>> >>,
     keystone_h |-> 0, keystone_v |-> 0]

\* warp_control_corners_to_matrix: identity with the centroid of the corners
\* as translation; sets the dirty member of the matrix
warp_control_corners_to_matrix(corners) ==
    LET sx == corners[1][1] + corners[2][1] + corners[3][1] + corners[4][1]
        sy == corners[1][2] + corners[2][2] + corners[3][2] + corners[4][2]
    IN  [matrix |-> [matrix_identity EXCEPT ![12] = sx, ![13] = sy], dirty |-> 1]

\* warp_control_keystone_to_matrix with the shear terms not scaled by 0.5
warp_control_keystone_to_matrix_unscaled(h_keystone, v_keystone) ==
    [matrix |-> [matrix_identity EXCEPT ![1] = 4 * h_keystone, ![4] = 4 * v_keystone],
     dirty |-> 1]

\* warp_control_keystone_to_matrix
warp_control_keystone_to_matrix(h_keystone, v_keystone) ==
    [matrix |-> [matrix_identity EXCEPT ![1] = 2 * h_keystone, ![4] = 2 * v_keystone],
     dirty |-> 1]

\* the matrix update_matrix generates for params; the default branch of its
\* switch writes the identity into current_matrix.matrix and leaves the
\* dirty member as it was
GenerateMatrix(params, current_matrix) ==
    IF params.mode = WARP_MODE_CORNERS
    THEN warp_control_corners_to_matrix(params.corners)
    ELSE IF params.mode = WARP_MODE_KEYSTONE
    THEN warp_control_keystone_to_matrix(params.keystone_h, params.keystone_v)
    ELSE [current_matrix EXCEPT !.matrix = matrix_identity]

\* gpu_renderer_set_warp_matrix(ctx, matrix) with ctx = renderer_ctx, which
\* is NULL or the renderer r
gpu_renderer_set_warp_matrix(renderer_ctx, r, m) ==
    IF renderer_ctx = NULL
    THEN [ret |-> GPU_RENDERER_ERROR, r |-> r]
    ELSE [ret |-> GPU_RENDERER_OK,
          r |-> [r EXCEPT !.warp_matrix = [m EXCEPT !.dirty = 0]]]

\* warp_control_ctx after warp_control_create.  file is the content of
\* warp_config.txt on disk.  History: recomputed tells whether the last
\* update_matrix call generated a matrix, prev_matrix is current_matrix
\* before the last operation, last_op and prev_op are the last two operations,
\* keys_changed tells whether process_keyboard raised matrix_dirty in the
\* last warp_control_process_input call, last_ret is the last result, ops
\* counts the operations of the API harness.
warp_control_create ==
    [renderer_ctx |-> NULL, stdin_configured |-> 0,
     params |-> init_default_params,
     selected_corner |-> 0, fine_mode |-> 0,
     matrix_dirty |-> 1,
     current_matrix |-> [matrix |-> matrix_identity, dirty |-> 0],
     file |-> "absent",
     recomputed |-> FALSE,
     prev_matrix |-> [matrix |-> matrix_identity, dirty |-> 0],
     last_op |-> "create", prev_op |-> "none", keys_changed |-> FALSE,
     last_ret |-> WARP_CONTROL_OK, ops |-> 0]

\* update_matrix.  Result: the return value, the context and the renderer.
update_matrix(w, r) ==
    IF w.matrix_dirty = 0
    THEN [ret |-> WARP_CONTROL_OK, w |-> [w EXCEPT !.recomputed = FALSE], r |-> r]
    ELSE LET m   == GenerateMatrix(w.params, w.current_matrix)
             w1  == [w EXCEPT !.current_matrix = m, !.recomputed = TRUE]
             set == gpu_renderer_set_warp_matrix(w.renderer_ctx, r, m)
         IN  IF set.ret < 0
             THEN [ret |-> set.ret, w |-> w1, r |-> r]
             ELSE [ret |-> WARP_CONTROL_OK, w |-> [w1 EXCEPT !.matrix_dirty = 0],
                   r |-> set.r]

\* contents warp_config.txt can have: exists tells whether fopen finds the
\* file, has names the lines present, params carries their values
NoFile == [exists |-> FALSE, has |-> {}, params |-> init_default_params]

ConfigFiles ==
    { NoFile,
      [exists |-> TRUE, has |-> {"corner_tl"},
       params |-> [init_default_params EXCEPT !.corners[1] = <<-900, -1000>>]],
      [exists |-> TRUE, has |-> {"mode", "keystone_h", "keystone_v"},
       params |-> [init_default_params EXCEPT !.mode = WARP_MODE_KEYSTONE,
                                              !.keystone_h = 100,
                                              !.keystone_v = -50]],
      [exists |-> TRUE, has |-> {"mode"},
       params |-> [init_default_params EXCEPT !.mode = WARP_MODE_MATRIX]],
      [exists |-> TRUE, has |-> {"mode"},
       params |-> [init_default_params EXCEPT !.mode = WARP_MODE_KEYSTONE]],
      [exists |-> TRUE, has |-> {"corner_br"},
       params |-> [init_default_params EXCEPT !.corners[4] = <<3000, 1000>>]] }

AllLines == {"mode", "corner_tl", "corner_tr", "corner_bl", "corner_br",
             "keystone_h", "keystone_v"}

\* warp_control_load_config: every line present overwrites its parameter
warp_control_load_config(w) ==
    IF ~w.file.exists
    THEN [ret |-> WARP_CONTROL_ERROR, w |-> w]
    ELSE LET f == w.file
             p == w.params
             c(i, line) == IF line \in f.has THEN f.params.corners[i] ELSE p.corners[i]
         IN  [ret |-> WARP_CONTROL_OK,
              w |-> [w EXCEPT !.params =
                       [mode |-> IF "mode" \in f.has THEN f.params.mode ELSE p.mode,
                        corners |-> << c(1, "corner_tl"), c(2, "corner_tr"),
                                       c(3, "corner_bl"), c(4, "corner_br") >>,
                        keystone_h |-> IF "keystone_h" \in f.has
                                       THEN f.params.keystone_h ELSE p.keystone_h,
                        keystone_v |-> IF "keystone_v" \in f.has
                                       THEN f.params.keystone_v ELSE p.keystone_v]]]

\* warp_control_save_config: openOk is whether fopen(filename, "w") succeeded
warp_control_save_config(w, openOk) ==
    IF ~openOk
    THEN [ret |-> WARP_CONTROL_ERROR, w |-> w]
    ELSE [ret |-> WARP_CONTROL_OK,
          w |-> [w EXCEPT !.file = [exists |-> TRUE, has |-> AllLines,
                                    params |-> w.params]]]

\* fmaxf(-2.0f, fminf(2.0f, x))
Clamp(x) == IF x > CornerLimit THEN CornerLimit
            ELSE IF x < -CornerLimit THEN -CornerLimit ELSE x

\* the key events process_keyboard tells apart; the arrows stand for the
\* three-byte sequences ESC [ A..D, "esc" for a lone ESC
Keys == {"up", "down", "left", "right", "esc", "q", "r", "f",
         "1", "2", "3", "4", "s", "l"}

\* the arrow-key case of process_keyboard: move the selected corner by step
\* and clamp both of its coordinates
MoveCorner(corners, sel, key, step) ==
    LET c  == corners[sel + 1]
        x  == IF key = "left" THEN c[1] - step
              ELSE IF key = "right" THEN c[1] + step ELSE c[1]
        y  == IF key = "up" THEN c[2] - step
              ELSE IF key = "down" THEN c[2] + step ELSE c[2]
    IN  [corners EXCEPT ![sel + 1] = <<Clamp(x), Clamp(y)>>]

RECURSIVE ReadKeys(_, _, _, _, _)
\* the while loop of process_keyboard over the pending key events
ReadKeys(w, keys, step, updated, saveOk) ==
    IF keys = <<>>
    THEN [ret |-> IF updated THEN WARP_CONTROL_UPDATED ELSE WARP_CONTROL_OK,
          w |-> w, updated |-> updated]
    ELSE LET ch   == Head(keys)
             rest == Tail(keys)
         IN
         IF ch \in {"esc", "q"}
         THEN [ret |-> WARP_CONTROL_ERROR, w |-> w, updated |-> updated]
         ELSE IF ch \in {"up", "down", "left", "right"}
         THEN ReadKeys([w EXCEPT !.params.corners =
                                   MoveCorner(@, w.selected_corner, ch, step),
                                 !.matrix_dirty = 1],
                       rest, step, TRUE, saveOk)
         ELSE IF ch = "r"
         THEN ReadKeys([w EXCEPT !.params = init_default_params, !.matrix_dirty = 1],
                       rest, step, TRUE, saveOk)
         ELSE IF ch = "f"
         THEN ReadKeys([w EXCEPT !.fine_mode = 1 - @], rest, step, updated, saveOk)
         ELSE IF ch = "1" THEN ReadKeys([w EXCEPT !.selected_corner = 0], rest, step, updated, saveOk)
         ELSE IF ch = "2" THEN ReadKeys([w EXCEPT !.selected_corner = 1], rest, step, updated, saveOk)
         ELSE IF ch = "3" THEN ReadKeys([w EXCEPT !.selected_corner = 2], rest, step, updated, saveOk)
         ELSE IF ch = "4" THEN ReadKeys([w EXCEPT !.selected_corner = 3], rest, step, updated, saveOk)
         ELSE IF ch = "s"
         THEN ReadKeys(warp_control_save_config(w, saveOk).w, rest, step, updated, saveOk)
         ELSE IF ch = "l"
         THEN LET ld == warp_control_load_config(w) IN
              IF ld.ret = 0
              THEN ReadKeys([ld.w EXCEPT !.matrix_dirty = 1], rest, step, TRUE, saveOk)
              ELSE ReadKeys(w, rest, step, updated, saveOk)
         ELSE ReadKeys(w, rest, step, updated, saveOk)

\* process_keyboard: step is fixed from fine_mode before the first read
process_keyboard(w, keys, saveOk) ==
    LET step == IF w.fine_mode # 0 THEN DEFAULT_STEP_SIZE \div 10 ELSE DEFAULT_STEP_SIZE
    IN  ReadKeys(w, keys, step, FALSE, saveOk)

\* warp_control_process_input: keys are the key events pending on stdin
warp_control_process_input(w, r, keys, saveOk) ==
    LET kb == IF w.stdin_configured # 0
              THEN process_keyboard(w, keys, saveOk)
              ELSE [ret |-> WARP_CONTROL_OK, w |-> w, updated |-> FALSE]
        w0 == [kb.w EXCEPT !.prev_op = w.last_op,
                           !.prev_matrix = w.current_matrix,
                           !.keys_changed = kb.updated]
    IN  IF kb.ret < 0
        THEN [ret |-> kb.ret, r |-> r,
              w |-> [w0 EXCEPT !.last_op = "quit", !.last_ret = kb.ret]]
        ELSE LET u == update_matrix(w0, r) IN
             [ret |-> u.ret, r |-> u.r,
              w |-> [u.w EXCEPT !.last_op = "resolve", !.last_ret = u.ret]]

\* warp_control_reset
warp_control_reset(w, r) ==
    LET w0 == [w EXCEPT !.params = init_default_params, !.matrix_dirty = 1,
                        !.prev_op = w.last_op, !.prev_matrix = w.current_matrix,
                        !.keys_changed = FALSE]
        u  == update_matrix(w0, r)
    IN  [ret |-> u.ret, r |-> u.r,
         w |-> [u.w EXCEPT !.last_op = "reset", !.last_ret = u.ret]]

\* warp_control_configure: termOk is whether setup_keyboard_input succeeded;
\* the renderer handle stored is not NULL
warp_control_configure(w, termOk) ==
    [w EXCEPT !.renderer_ctx = 1,
              !.stdin_configured = IF termOk THEN 1 ELSE 0,
              !.prev_op = w.last_op, !.prev_matrix = w.current_matrix,
              !.keys_changed = FALSE, !.last_op = "configure",
              !.last_ret = WARP_CONTROL_OK]

(* ======================================================================= *)
(*                             gpu_renderer.c                              *)
(* ======================================================================= *)

\* no eglCreateImageKHR call made
NoAttribs == [fd |-> -1]

\* gpu_renderer_ctx after gpu_renderer_configure; the last_* fields record
\* what the most recent gpu_renderer_render_frame call did: the path taken,
\* its result, the eglSwapBuffers calls it made, the attribute list it passed
\* to eglCreateImageKHR; live_textures and live_images are the GL textures
\* and EGL images it created and had not destroyed when it returned
RendInit ==
    [current_program |-> "none",
     warp_matrix |-> [matrix |-> matrix_identity, dirty |-> 0],
     last_path |-> "none", last_ret |-> GPU_RENDERER_OK, last_num_planes |-> 0,
     last_swaps |-> 0, last_attribs |-> NoAttribs,
     live_textures |-> 0, live_images |-> 0]

\* gpu_renderer_import_dmabuf: imageOk is whether eglCreateImageKHR returned
\* an image.  attribs is the attribute list of the call, images and textures
\* the objects created and not destroyed on return: the image is destroyed
\* as soon as the texture is bound to it, the texture is handed to the caller.
gpu_renderer_import_dmabuf(dmabuf_fd, width, height, format, imageOk) ==
    LET attribs == [width |-> width, height |-> height, fourcc |-> format,
                    fd |-> dmabuf_fd, offset |-> 0, pitch |-> width]
    IN  IF dmabuf_fd < 0
        THEN [ret |-> GPU_RENDERER_ERROR, attribs |-> NoAttribs, images |-> 0, textures |-> 0]
        ELSE IF ~imageOk
        THEN [ret |-> GPU_RENDERER_ERROR, attribs |-> attribs, images |-> 0, textures |-> 0]
        ELSE [ret |-> GPU_RENDERER_OK, attribs |-> attribs, images |-> 0, textures |-> 1]

\* gpu_renderer_render_frame without its glDeleteTextures loop
gpu_renderer_render_frame_keep(r, df, imageOk) ==
    IF df.dmabuf_fd[1] < 0
    THEN [r EXCEPT !.last_path = "placeholder", !.last_ret = GPU_RENDERER_OK,
                   !.last_num_planes = df.num_planes, !.last_swaps = 1,
                   !.last_attribs = NoAttribs, !.live_textures = 0, !.live_images = 0]
    ELSE LET imp  == gpu_renderer_import_dmabuf(df.dmabuf_fd[1], df.width, df.height,
                                                df.format, imageOk)
             prog == IF df.format = AV_PIX_FMT_NV12 THEN "nv12" ELSE "yuv420"
         IN  IF imp.ret < 0
             THEN [r EXCEPT !.last_path = "import", !.last_ret = imp.ret,
                            !.last_num_planes = df.num_planes, !.last_swaps = 0,
                            !.last_attribs = imp.attribs,
                            !.live_textures = imp.textures, !.live_images = imp.images]
             ELSE [r EXCEPT !.last_path = "import", !.last_ret = GPU_RENDERER_OK,
                            !.last_num_planes = df.num_planes,
                            !.current_program = prog, !.last_swaps = 1,
                            !.last_attribs = imp.attribs,
                            !.live_textures = imp.textures, !.live_images = imp.images]

\* gpu_renderer_render_frame: the test on dmabuf_fd[0] selects the placeholder
\* pattern, everything else goes through the DMABUF import of plane 0; both
\* paths end with eglSwapBuffers
gpu_renderer_render_frame(r, df, imageOk) ==
    IF df.dmabuf_fd[1] < 0
    THEN [r EXCEPT !.last_path = "placeholder", !.last_ret = GPU_RENDERER_OK,
                   !.last_num_planes = df.num_planes, !.last_swaps = 1,
                   !.last_attribs = NoAttribs, !.live_textures = 0, !.live_images = 0]
    ELSE LET imp  == gpu_renderer_import_dmabuf(df.dmabuf_fd[1], df.width, df.height,
                                                df.format, imageOk)
             prog == IF df.format = AV_PIX_FMT_NV12 THEN "nv12" ELSE "yuv420"
         IN  IF imp.ret < 0
             THEN [r EXCEPT !.last_path = "import", !.last_ret = imp.ret,
                            !.last_num_planes = df.num_planes, !.last_swaps = 0,
                            !.last_attribs = imp.attribs,
                            !.live_textures = imp.textures, !.live_images = imp.images]
             ELSE [r EXCEPT !.last_path = "import", !.last_ret = GPU_RENDERER_OK,
                            !.last_num_planes = df.num_planes,
                            !.current_program = prog, !.last_swaps = 1,
                            !.last_attribs = imp.attribs,
                            !.live_textures = imp.textures - 1, !.live_images = imp.images]

(* ======================================================================= *)
(*                 display_output.c: the presentation cycle                *)
(* ======================================================================= *)

\* uint64_t frames_presented, total_present_time_us: the counters wrap at
\* 2^64; the model keeps the wrap-around at a range small enough to enumerate
Uint64Range == 32

\* conversion of a signed long long to uint64_t
ToUint64(x) == x % Uint64Range

\* display_output_ctx after display_output_create: calloc, nothing negotiated.
\* binds counts the drmModeSetCrtc calls that succeeded, last_ret is the
\* result of the most recent display_output_present_frame call, last_swaps
\* and last_binds the eglSwapBuffers and drmModeSetCrtc calls it completed,
\* last_locks the gbm_surface_lock_front_buffer calls it made and
\* last_failed_call the external call that made it return early.  fbs counts
\* the framebuffer objects added and not removed, locked the front buffers
\* locked and not released.
DispCreated ==
    [configured |-> 0, mode_set |-> 0, frames_presented |-> 0,
     total_present_time_us |-> 0, binds |-> 0, last_ret |-> DISPLAY_OUTPUT_OK,
     last_swaps |-> 0, last_binds |-> 0, last_locks |-> 0,
     last_failed_call |-> "none", fbs |-> 0, locked |-> 0]

\* display_output_ctx after display_output_configure succeeded
DispInit == [DispCreated EXCEPT !.configured = 1]

\* what one display_output_present_frame call can meet: every external call
\* succeeds ("ok"), or the first failing one is eglSwapBuffers,
\* gbm_surface_lock_front_buffer, drmModeAddFB or drmModeSetCrtc
PresentOutcomes == {"ok", "swap_fail", "lock_fail", "addfb_fail", "setcrtc_fail"}

\* display_output_present_frame that never records mode_set
display_output_present_frame_rebind(d, out, dt) ==
    IF d.configured = 0
    THEN [d EXCEPT !.last_ret = DISPLAY_OUTPUT_ERROR, !.last_swaps = 0, !.last_binds = 0]
    ELSE IF out = "swap_fail"
    THEN [d EXCEPT !.last_ret = DISPLAY_OUTPUT_ERROR, !.last_swaps = 0, !.last_binds = 0]
    ELSE IF out \in {"lock_fail", "addfb_fail", "setcrtc_fail"}
    THEN [d EXCEPT !.last_ret = DISPLAY_OUTPUT_ERROR, !.last_swaps = 1, !.last_binds = 0]
    ELSE [d EXCEPT !.binds = @ + 1,
                   !.frames_presented = ToUint64(@ + 1),
                   !.total_present_time_us = ToUint64(@ + ToUint64(dt)),
                   !.last_ret = DISPLAY_OUTPUT_OK,
                   !.last_swaps = 1, !.last_binds = 1]

\* display_output_present_frame without the test of ctx->configured
display_output_present_frame_unchecked(d, out, dt) ==
    IF out = "swap_fail"
    THEN [d EXCEPT !.last_ret = DISPLAY_OUTPUT_ERROR, !.last_swaps = 0, !.last_binds = 0]
    ELSE IF d.mode_set = 0 /\ out \in {"lock_fail", "addfb_fail", "setcrtc_fail"}
    THEN [d EXCEPT !.last_ret = DISPLAY_OUTPUT_ERROR, !.last_swaps = 1, !.last_binds = 0]
    ELSE [d EXCEPT !.mode_set = 1,
                   !.binds = IF d.mode_set = 0 THEN @ + 1 ELSE @,
                   !.frames_presented = ToUint64(@ + 1),
                   !.total_present_time_us = ToUint64(@ + ToUint64(dt)),
                   !.last_ret = DISPLAY_OUTPUT_OK,
                   !.last_swaps = 1,
                   !.last_binds = IF d.mode_set = 0 THEN 1 ELSE 0]

\* gbm_surface_lock_front_buffer returning a buffer object
gbm_surface_lock_front_buffer(d) == [d EXCEPT !.locked = @ + 1]

\* gbm_surface_release_buffer
gbm_surface_release_buffer(d) == [d EXCEPT !.locked = @ - 1]

\* drmModeAddFB returning 0
drmModeAddFB(d) == [d EXCEPT !.fbs = @ + 1]

\* drmModeRmFB
drmModeRmFB(d) == [d EXCEPT !.fbs = @ - 1]

\* display_output_present_frame returning DISPLAY_OUTPUT_ERROR after `call`
\* failed, with swaps eglSwapBuffers and locks lock_front_buffer calls made
PresentError(d, call, swaps, locks) ==
    [d EXCEPT !.last_ret = DISPLAY_OUTPUT_ERROR, !.last_swaps = swaps,
              !.last_binds = 0, !.last_locks = locks, !.last_failed_call = call]

\* the statistics update and return DISPLAY_OUTPUT_OK of
\* display_output_present_frame
PresentDone(d, dt, binds) ==
    [d EXCEPT !.frames_presented = ToUint64(@ + 1),
              !.total_present_time_us = ToUint64(@ + ToUint64(dt)),
              !.last_ret = DISPLAY_OUTPUT_OK, !.last_swaps = 1,
              !.last_binds = binds, !.last_locks = binds,
              !.last_failed_call = "none"]

\* display_output_present_frame whose drmModeSetCrtc failure path returns
\* without drmModeRmFB and gbm_surface_release_buffer
display_output_present_frame_leak(d, out, dt) ==
    IF d.configured = 0
    THEN PresentError(d, "none", 0, 0)
    ELSE IF out = "swap_fail"
    THEN PresentError(d, "eglSwapBuffers", 0, 0)
    ELSE IF d.mode_set # 0
    THEN PresentDone(d, dt, 0)
    ELSE IF out = "lock_fail"
    THEN PresentError(d, "gbm_surface_lock_front_buffer", 1, 1)
    ELSE LET bo == gbm_surface_lock_front_buffer(d) IN
         IF out = "addfb_fail"
         THEN PresentError(gbm_surface_release_buffer(bo), "drmModeAddFB", 1, 1)
         ELSE LET fb == drmModeAddFB(bo) IN
              IF out = "setcrtc_fail"
              THEN PresentError(fb, "drmModeSetCrtc", 1, 1)
              ELSE PresentDone([gbm_surface_release_buffer(fb)
                                  EXCEPT !.mode_set = 1, !.binds = @ + 1], dt, 1)

\* display_output_present_frame: out is the outcome of the external calls,
\* dt the difference of the two gettimeofday readings in microseconds
\* (wall-clock time: negative when the clock was set back in between)
display_output_present_frame(d, out, dt) ==
    IF d.configured = 0
    THEN PresentError(d, "none", 0, 0)
    ELSE IF out = "swap_fail"
    THEN PresentError(d, "eglSwapBuffers", 0, 0)
    ELSE IF d.mode_set # 0
    THEN PresentDone(d, dt, 0)
    ELSE IF out = "lock_fail"
    THEN PresentError(d, "gbm_surface_lock_front_buffer", 1, 1)
    ELSE LET bo == gbm_surface_lock_front_buffer(d) IN
         IF out = "addfb_fail"
         THEN PresentError(gbm_surface_release_buffer(bo), "drmModeAddFB", 1, 1)
         ELSE LET fb == drmModeAddFB(bo) IN
              IF out = "setcrtc_fail"
              THEN PresentError(gbm_surface_release_buffer(drmModeRmFB(fb)),
                                "drmModeSetCrtc", 1, 1)
              ELSE PresentDone([gbm_surface_release_buffer(fb)
                                  EXCEPT !.mode_set = 1, !.binds = @ + 1], dt, 1)

(* ======================================================================= *)
(*                    video_input.c: packets of the demuxer                *)
(* ======================================================================= *)

\* frame_packet_t after `= {0}` and after video_input_free_packet's memset
ZeroPacket == [data |-> 0, private_data |-> NULL]

\* video_input_free_packet: the packet structure afterwards
video_input_free_packet(pkt) ==
    IF pkt.private_data = NULL THEN pkt ELSE ZeroPacket

\* video_input_free_packet: the AVPackets still allocated afterwards
FreeLive(live, pkt) ==
    IF pkt.private_data = NULL THEN live ELSE live \ {pkt.private_data}

\* what av_read_frame can answer at demuxer position n
ReadOutcomes(n, len) == {"ERROR"} \cup (IF n <= len THEN {"OK"} ELSE {"EOF"})

(* ======================================================================= *)
(*              drm_display.c: GBM front buffers of the surface            *)
(* ======================================================================= *)

\* buffer objects of the GBM surface
NumBos == 4
Bos == 1..NumBos

\* display_ctx_t outside the drm_display specification
DrmIdle == [phase |-> "idle"]

\* display_ctx_t after drm_init returned 0.  locked is the set of buffer
\* objects locked and not released; double_release and
\* release_after_destroy record a gbm_surface_release_buffer call on a
\* buffer that was not locked, or made after gbm_surface_destroy; swaps
\* counts the drm_swap_buffers calls, last_ret is the result of the last one
DrmInit ==
    [phase |-> "open", current_bo |-> NULL, next_bo |-> NULL, gbm_surface |-> 1,
     locked |-> {}, double_release |-> FALSE, release_after_destroy |-> FALSE,
     swaps |-> 0, last_ret |-> 0]

\* what gbm_surface_lock_front_buffer can return: a buffer object of the
\* surface that is not locked, or NULL
DrmLockOutcomes(d) == (Bos \ d.locked) \cup {NULL}

\* gbm_surface_release_buffer(drm->gbm_surface, bo)
DrmReleaseBuffer(d, bo) ==
    [d EXCEPT !.locked = @ \ {bo},
              !.double_release = @ \/ bo \notin d.locked,
              !.release_after_destroy = @ \/ d.gbm_surface = NULL]

\* drm_swap_buffers; bo is what gbm_surface_lock_front_buffer returned
drm_swap_buffers(d, bo) ==
    LET d1 == [d EXCEPT !.next_bo = bo, !.swaps = @ + 1,
                        !.locked = IF bo # NULL THEN @ \cup {bo} ELSE @]
    IN  IF d1.next_bo = NULL
        THEN [d1 EXCEPT !.last_ret = -1]
        ELSE LET d2 == IF d1.current_bo # NULL
                       THEN DrmReleaseBuffer(d1, d1.current_bo)
                       ELSE d1
             IN  [d2 EXCEPT !.current_bo = d2.next_bo, !.last_ret = 0]

\* drm_cleanup that releases next_bo without comparing it to current_bo
drm_cleanup_both(d) ==
    LET d1 == IF d.current_bo # NULL THEN DrmReleaseBuffer(d, d.current_bo) ELSE d
        d2 == IF d1.next_bo # NULL
              THEN DrmReleaseBuffer(d1, d1.next_bo)
              ELSE d1
    IN  [d2 EXCEPT !.gbm_surface = NULL, !.phase = "cleaned"]

\* drm_cleanup: buffer release, then gbm_surface_destroy, gbm_device_destroy
\* and close
drm_cleanup(d) ==
    LET d1 == IF d.current_bo # NULL THEN DrmReleaseBuffer(d, d.current_bo) ELSE d
        d2 == IF d1.next_bo # NULL /\ d1.next_bo # d1.current_bo
              THEN DrmReleaseBuffer(d1, d1.next_bo)
              ELSE d1
    IN  [d2 EXCEPT !.gbm_surface = NULL, !.phase = "cleaned"]

(* ======================================================================= *)
(*                pickle.c: init_pipeline's test pattern loop              *)
(* ======================================================================= *)

\* wall-clock time of one present call in the playback model, in ticks
PresentTicks == 1

\* test_frame of init_pipeline: {0} with dmabuf_fd[0] = -1
TestFrame == [ZeroFrame EXCEPT !.width = 1920, !.height = 1080, !.dmabuf_fd = <<-1, 0, 0>>]

\* values an uninitialised temp_frame can hold when its block is entered
StackGarbage ==
    { [ZeroFrame EXCEPT !.dmabuf_fd = fds] :
        fds \in { <<-1, -1, -1>>, <<0, 0, 0>>, <<7, 7, 7>> } }

histVars == <<acquired, releaseCount, presented, submitted, backpressured,
              phases, useAfterRelease>>
loopLocals == <<testIdx, nextPkt, packet, packet_count, attempts, livePackets>>
decVars == <<dec, clones, frame, temp_frame>>
cfgVars == <<neg, modeSel, fileLen, boot, srcFrame, drm>>

\* init_pipeline, one iteration of the test pattern loop up to the render
\* call: warp_control_process_input, then gpu_renderer_render_frame
TestPatternRender ==
    /\ pc = "test_render"
    /\ LET p == warp_control_process_input(warp, rend, <<>>, TRUE) IN
         /\ warp' = p.w
         /\ \E imageOk \in BOOLEAN :
              rend' = gpu_renderer_render_frame(p.r, TestFrame, imageOk)
    /\ pc' = IF rend'.last_ret < 0 THEN "start" ELSE "test_present"
    /\ UNCHANGED <<running, loopLocals, decVars, disp, cfgVars, histVars>>

\* init_pipeline, the present call of the test pattern loop and the loop step
TestPatternPresent ==
    /\ pc = "test_present"
    /\ \E out \in PresentOutcomes :
         disp' = display_output_present_frame(disp, out, PresentTicks)
    /\ IF disp'.last_ret < 0
       THEN pc' = "start" /\ testIdx' = testIdx
       ELSE /\ testIdx' = testIdx + 1
            /\ pc' = IF testIdx + 1 < TestFrames THEN "test_render" ELSE "start"
    /\ UNCHANGED <<running, nextPkt, packet, packet_count, attempts, livePackets,
                   decVars, rend, cfgVars, warp, histVars>>

(* ======================================================================= *)
(*                      pickle.c: run_playback_loop                        *)
(* ======================================================================= *)

\* signal_handler (SIGINT, SIGTERM): installed before init_pipeline
signal_handler ==
    /\ pc # "done"
    /\ running' = 0
    /\ boot' = [boot EXCEPT !.signalled = TRUE]
    /\ UNCHANGED <<pc, loopLocals, decVars, rend, disp, neg, modeSel, fileLen,
                   srcFrame, drm, warp, histVars>>

\* run_playback_loop entry: g_player_state.running = 1
StartLoop ==
    /\ pc = "start"
    /\ running' = 1
    /\ pc' = "loop_top"
    /\ UNCHANGED <<loopLocals, decVars, rend, disp, cfgVars, warp, histVars>>

\* a loop test that does not look at the running flag
LoopTop_deaf ==
    /\ pc = "loop_top"
    /\ pc' = "read"
    /\ phases' = <<>>
    /\ UNCHANGED <<running, loopLocals, decVars, rend, disp, cfgVars, warp, acquired,
                   releaseCount, presented, submitted, backpressured, useAfterRelease>>

\* while (g_player_state.running)
LoopTop ==
    /\ pc = "loop_top"
    /\ pc' = IF running # 0 THEN "read" ELSE "done"
    /\ phases' = <<>>
    /\ UNCHANGED <<running, loopLocals, decVars, rend, disp, cfgVars, warp, acquired,
                   releaseCount, presented, submitted, backpressured, useAfterRelease>>

\* 1. video_input_read_packet
ReadPacket ==
    /\ pc = "read"
    /\ \E out \in ReadOutcomes(nextPkt, fileLen) :
         IF out = "OK"
         THEN /\ packet' = [data |-> nextPkt, private_data |-> nextPkt]
              /\ livePackets' = livePackets \cup {nextPkt}
              /\ nextPkt' = nextPkt + 1
              /\ packet_count' = packet_count + 1
              /\ pc' = "submit"
         ELSE /\ pc' = "done"
              /\ UNCHANGED <<packet, livePackets, nextPkt, packet_count>>
    /\ UNCHANGED <<running, testIdx, attempts, decVars, rend, disp, cfgVars, warp, histVars>>

\* 2. hw_decoder_submit_packet and the branch on its result
SubmitPacket ==
    /\ pc = "submit"
    /\ \E out \in SendOutcomes(dec) :
         LET r == hw_decoder_submit_packet(dec, packet.data, out) IN
         /\ dec' = r.dec
         /\ IF r.ret = HW_DECODER_EAGAIN
            THEN /\ backpressured' = backpressured \cup {packet.data}
                 /\ temp_frame' \in StackGarbage
                 /\ pc' = "drain_get"
                 /\ UNCHANGED <<packet, livePackets, attempts, submitted>>
            ELSE IF r.ret < 0
            THEN /\ packet' = video_input_free_packet(packet)
                 /\ livePackets' = FreeLive(livePackets, packet)
                 /\ pc' = "loop_top"
                 /\ UNCHANGED <<temp_frame, attempts, submitted, backpressured>>
            ELSE /\ submitted' = Append(submitted, packet.data)
                 /\ attempts' = 0
                 /\ pc' = "get"
                 /\ UNCHANGED <<packet, livePackets, temp_frame, backpressured>>
    /\ UNCHANGED <<running, testIdx, nextPkt, packet_count, clones, frame, rend,
                   disp, cfgVars, warp, acquired, releaseCount, presented, phases, useAfterRelease>>

\* backpressure branch: hw_decoder_get_frame(&temp_frame); on anything but OK
\* the branch ends with usleep and continue
DrainGet ==
    /\ pc = "drain_get"
    /\ \E o \in RecvOutcomes(dec) :
         LET r == hw_decoder_get_frame(dec, clones, temp_frame, o.out, o.kind, o.clone) IN
         /\ dec' = r.dec
         /\ clones' = r.clones
         /\ IF r.ret = HW_DECODER_OK
            THEN /\ temp_frame' = r.frame
                 /\ acquired' = Append(acquired, r.frame.timestamp_us)
                 /\ phases' = <<"acquire">>
                 /\ pc' = "drain_warp"
            ELSE /\ temp_frame' = ZeroFrame
                 /\ pc' = "loop_top"
                 /\ UNCHANGED <<acquired, phases>>
    /\ UNCHANGED <<running, loopLocals, frame, rend, disp, cfgVars, warp, releaseCount,
                   presented, submitted, backpressured, useAfterRelease>>

\* backpressure branch: warp_control_process_input
DrainWarp ==
    /\ pc = "drain_warp"
    /\ LET p == warp_control_process_input(warp, rend, <<>>, TRUE) IN
         warp' = p.w /\ rend' = p.r
    /\ phases' = Append(phases, "warp")
    /\ pc' = "drain_render"
    /\ UNCHANGED <<running, loopLocals, decVars, disp, cfgVars, acquired,
                   releaseCount, presented, submitted, backpressured, useAfterRelease>>

\* backpressure branch: gpu_renderer_render_frame(&temp_frame), result ignored
DrainRender ==
    /\ pc = "drain_render"
    /\ \E imageOk \in BOOLEAN :
         rend' = gpu_renderer_render_frame(rend, temp_frame, imageOk)
    /\ phases' = Append(phases, "composite")
    /\ useAfterRelease' = (useAfterRelease \/ releaseCount[temp_frame.timestamp_us] > 0)
    /\ pc' = "drain_present"
    /\ UNCHANGED <<running, loopLocals, decVars, disp, cfgVars, warp, acquired,
                   releaseCount, presented, submitted, backpressured>>

\* the backpressure branch presenting for the loop's frame, not temp_frame
DrainPresent_stale ==
    /\ pc = "drain_present"
    /\ \E out \in PresentOutcomes :
         disp' = display_output_present_frame(disp, out, PresentTicks)
    /\ presented' = Append(presented, frame.timestamp_us)
    /\ phases' = Append(phases, "present")
    /\ pc' = "drain_release"
    /\ UNCHANGED <<running, loopLocals, decVars, rend, cfgVars, warp, acquired,
                   releaseCount, submitted, backpressured, useAfterRelease>>

\* backpressure branch: display_output_present_frame, result ignored
DrainPresent ==
    /\ pc = "drain_present"
    /\ \E out \in PresentOutcomes :
         disp' = display_output_present_frame(disp, out, PresentTicks)
    /\ presented' = Append(presented, temp_frame.timestamp_us)
    /\ phases' = Append(phases, "present")
    /\ pc' = "drain_release"
    /\ UNCHANGED <<running, loopLocals, decVars, rend, cfgVars, warp, acquired,
                   releaseCount, submitted, backpressured, useAfterRelease>>

\* backpressure branch: hw_decoder_release_frame(&temp_frame), usleep, continue;
\* temp_frame goes out of scope
DrainRelease ==
    /\ pc = "drain_release"
    /\ clones' = ReleaseClones(clones, temp_frame)
    /\ releaseCount' = [releaseCount EXCEPT ![temp_frame.timestamp_us] = @ + 1]
    /\ temp_frame' = ZeroFrame
    /\ phases' = Append(phases, "release")
    /\ pc' = "loop_top"
    /\ UNCHANGED <<running, loopLocals, dec, frame, rend, disp, cfgVars, warp, acquired,
                   presented, submitted, backpressured, useAfterRelease>>

\* int max_attempts = (packet_count <= 10) ? 20 : 5
max_attempts == IF packet_count <= PatientPackets THEN PatientAttempts ELSE NormalAttempts

\* the drain loop ending playback when its retry budget is used up
GetFrame_giveup ==
    /\ pc = "get"
    /\ \E o \in RecvOutcomes(dec) :
         LET r == hw_decoder_get_frame(dec, clones, frame, o.out, o.kind, o.clone) IN
         /\ dec' = r.dec
         /\ clones' = r.clones
         /\ frame' = r.frame
         /\ IF r.ret = HW_DECODER_OK
            THEN /\ acquired' = Append(acquired, r.frame.timestamp_us)
                 /\ phases' = <<"acquire">>
                 /\ pc' = "warp"
                 /\ attempts' = 0
                 /\ UNCHANGED <<packet, livePackets>>
            ELSE IF r.ret # HW_DECODER_EAGAIN
            THEN /\ packet' = video_input_free_packet(packet)
                 /\ livePackets' = FreeLive(livePackets, packet)
                 /\ pc' = "loop_top"
                 /\ attempts' = 0
                 /\ UNCHANGED <<acquired, phases>>
            ELSE /\ IF attempts + 1 < max_attempts
                    THEN /\ attempts' = attempts + 1
                         /\ pc' = "get"
                         /\ UNCHANGED <<packet, livePackets>>
                    ELSE /\ attempts' = 0
                         /\ packet' = video_input_free_packet(packet)
                         /\ livePackets' = FreeLive(livePackets, packet)
                         /\ pc' = "done"
                 /\ UNCHANGED <<acquired, phases>>
    /\ UNCHANGED <<running, testIdx, nextPkt, packet_count, temp_frame, rend, disp,
                   cfgVars, warp, releaseCount, presented, submitted, backpressured, useAfterRelease>>

\* 3. one pass of the do/while around hw_decoder_get_frame(&frame), and the
\* `if (ret < 0)` after the loop when the loop ends.  attempts is local to the
\* loop body: it holds 0 outside the do/while.
GetFrame ==
    /\ pc = "get"
    /\ \E o \in RecvOutcomes(dec) :
         LET r == hw_decoder_get_frame(dec, clones, frame, o.out, o.kind, o.clone) IN
         /\ dec' = r.dec
         /\ clones' = r.clones
         /\ frame' = r.frame
         /\ IF r.ret = HW_DECODER_OK
            THEN /\ acquired' = Append(acquired, r.frame.timestamp_us)
                 /\ phases' = <<"acquire">>
                 /\ pc' = "warp"
                 /\ attempts' = 0
                 /\ UNCHANGED <<packet, livePackets>>
            ELSE IF r.ret # HW_DECODER_EAGAIN
            THEN /\ packet' = video_input_free_packet(packet)
                 /\ livePackets' = FreeLive(livePackets, packet)
                 /\ pc' = "loop_top"
                 /\ attempts' = 0
                 /\ UNCHANGED <<acquired, phases>>
            ELSE /\ IF attempts + 1 < max_attempts
                    THEN /\ attempts' = attempts + 1
                         /\ pc' = "get"
                         /\ UNCHANGED <<packet, livePackets>>
                    ELSE /\ attempts' = 0
                         /\ packet' = video_input_free_packet(packet)
                         /\ livePackets' = FreeLive(livePackets, packet)
                         /\ pc' = "loop_top"
                 /\ UNCHANGED <<acquired, phases>>
    /\ UNCHANGED <<running, testIdx, nextPkt, packet_count, temp_frame, rend, disp,
                   cfgVars, warp, releaseCount, presented, submitted, backpressured, useAfterRelease>>

\* 4. warp_control_process_input
Warp ==
    /\ pc = "warp"
    /\ LET p == warp_control_process_input(warp, rend, <<>>, TRUE) IN
         warp' = p.w /\ rend' = p.r
    /\ phases' = Append(phases, "warp")
    /\ pc' = "key"
    /\ UNCHANGED <<running, loopLocals, decVars, disp, cfgVars, acquired,
                   releaseCount, presented, submitted, backpressured, useAfterRelease>>

\* 5. check_keyboard: q, Q or ESC clears running and breaks out of the loop
CheckKey ==
    /\ pc = "key"
    /\ \E key \in {"q", "none"} :
         IF key = "q"
         THEN running' = 0 /\ pc' = "done"
         ELSE running' = running /\ pc' = "render"
    /\ UNCHANGED <<loopLocals, decVars, rend, disp, cfgVars, warp, histVars>>

\* 6. gpu_renderer_render_frame(&frame); a failure is only logged
Render ==
    /\ pc = "render"
    /\ \E imageOk \in BOOLEAN :
         rend' = gpu_renderer_render_frame(rend, frame, imageOk)
    /\ phases' = Append(phases, "composite")
    /\ useAfterRelease' = (useAfterRelease \/ releaseCount[frame.timestamp_us] > 0)
    /\ pc' = "present"
    /\ UNCHANGED <<running, loopLocals, decVars, disp, cfgVars, warp, acquired,
                   releaseCount, presented, submitted, backpressured>>

\* 7. display_output_present_frame; a failure is only logged
Present ==
    /\ pc = "present"
    /\ \E out \in PresentOutcomes :
         disp' = display_output_present_frame(disp, out, PresentTicks)
    /\ presented' = Append(presented, frame.timestamp_us)
    /\ phases' = Append(phases, "present")
    /\ pc' = "release"
    /\ UNCHANGED <<running, loopLocals, decVars, rend, cfgVars, warp, acquired,
                   releaseCount, submitted, backpressured, useAfterRelease>>

\* the release placed before the render call
Release_early ==
    /\ pc = "release"
    /\ clones' = ReleaseClones(clones, frame)
    /\ frame' = hw_decoder_release_frame(frame)
    /\ releaseCount' = [releaseCount EXCEPT ![frame.timestamp_us] = @ + 1]
    /\ packet' = video_input_free_packet(packet)
    /\ livePackets' = FreeLive(livePackets, packet)
    /\ phases' = Append(phases, "release")
    /\ pc' = "render"
    /\ UNCHANGED <<running, testIdx, nextPkt, packet_count, attempts, dec, temp_frame,
                   rend, disp, cfgVars, warp, acquired, presented, submitted, backpressured,
                   useAfterRelease>>

\* hw_decoder_release_frame(&frame); video_input_free_packet(&packet); usleep
Release ==
    /\ pc = "release"
    /\ clones' = ReleaseClones(clones, frame)
    /\ frame' = hw_decoder_release_frame(frame)
    /\ releaseCount' = [releaseCount EXCEPT ![frame.timestamp_us] = @ + 1]
    /\ packet' = video_input_free_packet(packet)
    /\ livePackets' = FreeLive(livePackets, packet)
    /\ phases' = Append(phases, "release")
    /\ pc' = "loop_top"
    /\ UNCHANGED <<running, testIdx, nextPkt, packet_count, attempts, dec, temp_frame,
                   rend, disp, cfgVars, warp, acquired, presented, submitted, backpressured,
                   useAfterRelease>>

\* negotiation state outside the negotiation specification
NegIdle == [pc |-> "idle"]

\* main's start-up state outside the start-up specification
BootIdle == [pc |-> "idle", signalled |-> FALSE]

\* no AVFrame recorded
NoAVFrame == [format |-> "NONE"]

\* mode selection state outside the mode selection specification
ModeIdle == [pc |-> "idle"]

\* init_pipeline, 5. Initialize warp control: warp_control_create, then
\* warp_control_load_config with its result ignored; file is the content of
\* warp_config.txt.  warp_control_configure is not called.
PipelineWarp(file) ==
    LET c  == [warp_control_create EXCEPT !.file = file]
        ld == warp_control_load_config(c)
    IN  [ld.w EXCEPT !.prev_op = "create", !.last_op = "load", !.last_ret = ld.ret]

\* the state when init_pipeline has configured every module and enters its
\* test pattern loop
Init ==
    /\ pc = "test_render"
    /\ running = 0
    /\ testIdx = 0
    /\ nextPkt = 1
    /\ packet = ZeroPacket
    /\ packet_count = 0
    /\ attempts = 0
    /\ livePackets = {}
    /\ dec = DecInit
    /\ clones = {}
    /\ frame = ZeroFrame
    /\ temp_frame = ZeroFrame
    /\ rend = RendInit
    /\ disp = DispInit
    /\ neg = NegIdle
    /\ warp = PipelineWarp(NoFile)
    /\ modeSel = ModeIdle
    /\ fileLen = NumPackets
    /\ boot = BootIdle
    /\ srcFrame = NoAVFrame
    /\ drm = DrmIdle
    /\ acquired = <<>>
    /\ releaseCount = [p \in 0..NumPackets |-> 0]
    /\ presented = <<>>
    /\ submitted = <<>>
    /\ backpressured = {}
    /\ phases = <<>>
    /\ useAfterRelease = FALSE

Next ==
    \/ TestPatternRender
    \/ TestPatternPresent
    \/ signal_handler
    \/ StartLoop
    \/ LoopTop
    \/ ReadPacket
    \/ SubmitPacket
    \/ DrainGet
    \/ DrainWarp
    \/ DrainRender
    \/ DrainPresent
    \/ DrainRelease
    \/ GetFrame
    \/ Warp
    \/ CheckKey
    \/ Render
    \/ Present
    \/ Release

Spec == Init /\ [][Next]_vars

\* the steps of the main thread: everything but the signal handler
ThreadStep ==
    \/ TestPatternRender
    \/ TestPatternPresent
    \/ StartLoop
    \/ LoopTop
    \/ ReadPacket
    \/ SubmitPacket
    \/ DrainGet
    \/ DrainWarp
    \/ DrainRender
    \/ DrainPresent
    \/ DrainRelease
    \/ GetFrame
    \/ Warp
    \/ CheckKey
    \/ Render
    \/ Present
    \/ Release

\* the main thread keeps running: every library call and every usleep returns
SpecFair == Init /\ [][Next]_vars /\ WF_vars(ThreadStep)

(* ======================================================================= *)
(*        The decoder API on its own: any order of submit/get/release      *)
(* ======================================================================= *)

\* most hw_decoder_release_frame calls recorded per picture
MaxReleases == 2
\* packets submitted when the decoder API is driven on its own
ApiPackets == 2

\* the two descriptors a caller of the decoder API holds
Descriptors == {"frame", "temp_frame"}

ApiSubmit ==
    /\ pc = "api"
    /\ nextPkt <= ApiPackets
    /\ \E out \in SendOutcomes(dec) :
         LET r == hw_decoder_submit_packet(dec, nextPkt, out) IN
         /\ dec' = r.dec
         /\ nextPkt' = IF r.ret = HW_DECODER_OK THEN nextPkt + 1 ELSE nextPkt
         /\ submitted' = IF r.ret = HW_DECODER_OK THEN Append(submitted, nextPkt) ELSE submitted
    /\ UNCHANGED <<pc, running, testIdx, packet, packet_count, attempts, livePackets,
                   clones, frame, temp_frame, rend, disp, cfgVars, warp, acquired, releaseCount,
                   presented, backpressured, phases, useAfterRelease>>

\* hw_decoder_get_frame on either descriptor, held or not
ApiGetFrame ==
    /\ pc = "api"
    /\ \E which \in Descriptors, o \in RecvOutcomes(dec) :
         LET df == IF which = "frame" THEN frame ELSE temp_frame
             r  == hw_decoder_get_frame(dec, clones, df, o.out, o.kind, o.clone)
         IN  /\ dec' = r.dec
             /\ clones' = r.clones
             /\ frame' = IF which = "frame" THEN r.frame ELSE frame
             /\ temp_frame' = IF which = "frame" THEN temp_frame ELSE r.frame
             /\ acquired' = IF r.ret = HW_DECODER_OK
                            THEN Append(acquired, r.frame.timestamp_us) ELSE acquired
    /\ UNCHANGED <<pc, running, loopLocals, rend, disp, cfgVars, warp, releaseCount,
                   presented, submitted, backpressured, phases, useAfterRelease>>

\* hw_decoder_release_frame on either descriptor, held or not
ApiReleaseFrame ==
    /\ pc = "api"
    /\ \E which \in Descriptors :
         LET df == IF which = "frame" THEN frame ELSE temp_frame IN
         /\ releaseCount[df.timestamp_us] < MaxReleases
         /\ clones' = ReleaseClones(clones, df)
         /\ frame' = IF which = "frame" THEN hw_decoder_release_frame(df) ELSE frame
         /\ temp_frame' = IF which = "frame" THEN temp_frame ELSE hw_decoder_release_frame(df)
         /\ releaseCount' = [releaseCount EXCEPT ![df.timestamp_us] = @ + 1]
    /\ UNCHANGED <<pc, running, loopLocals, dec, rend, disp, cfgVars, warp, acquired,
                   presented, submitted, backpressured, phases, useAfterRelease>>

InitDec ==
    /\ pc = "api"
    /\ running = 0
    /\ testIdx = 0
    /\ nextPkt = 1
    /\ packet = ZeroPacket
    /\ packet_count = 0
    /\ attempts = 0
    /\ livePackets = {}
    /\ dec = DecInit
    /\ clones = {}
    /\ frame = ZeroFrame
    /\ temp_frame = ZeroFrame
    /\ rend = RendInit
    /\ disp = DispInit
    /\ neg = NegIdle
    /\ warp = PipelineWarp(NoFile)
    /\ modeSel = ModeIdle
    /\ fileLen = NumPackets
    /\ boot = BootIdle
    /\ srcFrame = NoAVFrame
    /\ drm = DrmIdle
    /\ acquired = <<>>
    /\ releaseCount = [p \in 0..NumPackets |-> 0]
    /\ presented = <<>>
    /\ submitted = <<>>
    /\ backpressured = {}
    /\ phases = <<>>
    /\ useAfterRelease = FALSE

NextDec ==
    \/ ApiSubmit
    \/ ApiGetFrame
    \/ ApiReleaseFrame

SpecDec == InitDec /\ [][NextDec]_vars

(* ======================================================================= *)
(*        display_output.c: surface negotiation (init_gbm + init_egl)      *)
(* ======================================================================= *)

GBM_FORMAT_XRGB8888 == "XRGB8888"
GBM_FORMAT_ARGB8888 == "ARGB8888"
GBM_FORMAT_RGB565 == "RGB565"
\* a layout outside the three the program names
GBM_FORMAT_XBGR8888 == "XBGR8888"

GbmFormats == {GBM_FORMAT_XRGB8888, GBM_FORMAT_ARGB8888, GBM_FORMAT_RGB565,
               GBM_FORMAT_XBGR8888}

\* the EGL configs a GPU can advertise: native visual, bits per colour
\* channel, alpha bits
EglConfigs ==
    { [visual |-> GBM_FORMAT_XRGB8888, rgb |-> 8, alpha |-> 0],
      [visual |-> GBM_FORMAT_ARGB8888, rgb |-> 8, alpha |-> 8],
      [visual |-> GBM_FORMAT_XBGR8888, rgb |-> 8, alpha |-> 0],
      [visual |-> GBM_FORMAT_RGB565, rgb |-> 5, alpha |-> 0] }

\* config_attribs1, config_attribs2, config_attribs3 of init_egl
config_attribs1 == [rgb |-> 8, alpha |-> 0, visual |-> GBM_FORMAT_XRGB8888]
config_attribs2 == [rgb |-> 8, alpha |-> 8, visual |-> GBM_FORMAT_ARGB8888]
config_attribs3 == [rgb |-> 8, alpha |-> 0, visual |-> "any"]

\* eglChooseConfig as init_egl relies on it: colour and alpha sizes are lower
\* bounds, EGL_NATIVE_VISUAL_ID selects the configs with that native visual
eglChooseConfig(configs, attribs) ==
    { c \in configs : /\ c.rgb >= attribs.rgb
                      /\ c.alpha >= attribs.alpha
                      /\ (attribs.visual = "any" \/ c.visual = attribs.visual) }

\* gbm_formats of init_gbm and fallback_formats of init_egl
gbm_formats == <<GBM_FORMAT_XRGB8888, GBM_FORMAT_ARGB8888, GBM_FORMAT_RGB565>>
fallback_formats == <<GBM_FORMAT_XRGB8888, GBM_FORMAT_ARGB8888, GBM_FORMAT_RGB565>>

\* the loops over gbm_formats / fallback_formats: index of the first layout
\* gbm_surface_create accepts, 0 if it accepts none
FirstCreatable(list, creatable) ==
    IF \E i \in 1..Len(list) : list[i] \in creatable
    THEN CHOOSE i \in 1..Len(list) :
            /\ list[i] \in creatable
            /\ \A j \in 1..(i - 1) : list[j] \notin creatable
    ELSE 0

\* the approaches tried with the alpha-carrying one first
ChooseApproach_swapped(configs) ==
    IF eglChooseConfig(configs, config_attribs2) # {} THEN 2
    ELSE IF eglChooseConfig(configs, config_attribs1) # {} THEN 1
    ELSE IF eglChooseConfig(configs, config_attribs3) # {} THEN 3
    ELSE 0

\* init_egl, approaches 1 to 3: the number of the approach whose
\* eglChooseConfig call returns a config, 0 if none does
ChooseApproach(configs) ==
    IF eglChooseConfig(configs, config_attribs1) # {} THEN 1
    ELSE IF eglChooseConfig(configs, config_attribs2) # {} THEN 2
    ELSE IF eglChooseConfig(configs, config_attribs3) # {} THEN 3
    ELSE 0

\* the configs eglChooseConfig can return in approach a
ApproachConfigs(configs, a) ==
    IF a = 1 THEN eglChooseConfig(configs, config_attribs1)
    ELSE IF a = 2 THEN eglChooseConfig(configs, config_attribs2)
    ELSE IF a = 3 THEN eglChooseConfig(configs, config_attribs3)
    ELSE {}

\* the value init_egl gives gbm_format in approach a
ApproachFormat(a) ==
    IF a = 1 THEN GBM_FORMAT_XRGB8888 ELSE GBM_FORMAT_ARGB8888

\* the recreation going to the fallback list without trying gbm_format
RecreateSurface_skipexact(gbm_format, creatable) ==
    LET k == FirstCreatable(fallback_formats, creatable) IN
    IF k = 0
    THEN [surface |-> "NULL", gbm_format |-> gbm_format, tried |-> fallback_formats]
    ELSE [surface |-> fallback_formats[k], gbm_format |-> fallback_formats[k],
          tried |-> SubSeq(fallback_formats, 1, k)]

\* init_egl, "Recreate GBM surface": gbm_surface_create with gbm_format, and
\* on failure the loop over fallback_formats.  Result: the surface's layout
\* ("NULL" if none), gbm_format afterwards, the fallback layouts tried.
RecreateSurface(gbm_format, creatable) ==
    IF gbm_format \in creatable
    THEN [surface |-> gbm_format, gbm_format |-> gbm_format, tried |-> <<>>]
    ELSE LET k == FirstCreatable(fallback_formats, creatable) IN
         IF k = 0
         THEN [surface |-> "NULL", gbm_format |-> gbm_format, tried |-> fallback_formats]
         ELSE [surface |-> fallback_formats[k], gbm_format |-> fallback_formats[k],
               tried |-> SubSeq(fallback_formats, 1, k)]

\* eglCreateWindowSurface: EGL_BAD_MATCH unless the native window has the
\* config's native visual
eglCreateWindowSurface(config, surface) == config.visual = surface

\* negotiation state before init_gbm, for a GPU advertising eglConfigs and a
\* display whose GBM device can create surfaces of the layouts gbmCreatable
NegStart(E, G) ==
    [pc |-> "init_gbm", eglConfigs |-> E, gbmCreatable |-> G,
     gbm_surface |-> "NULL", gbm_format |-> GBM_FORMAT_XRGB8888,
     egl_config |-> "NONE", approach |-> 0, visualReported |-> FALSE,
     destroyed |-> 0, tried |-> <<>>, boundSurface |-> "NONE",
     windowAttempts |-> 0,
     result |-> "PENDING", failedAt |-> "none"]

NegFail(n, where) == [n EXCEPT !.pc = "done", !.result = "FAILED", !.failedAt = where]

negOthers == <<pc, running, loopLocals, decVars, rend, disp, histVars,
              warp, modeSel, fileLen, boot, srcFrame, drm>>

\* init_gbm: the first of gbm_formats that gbm_surface_create accepts
NegInitGbm ==
    /\ neg.pc = "init_gbm"
    /\ LET k == FirstCreatable(gbm_formats, neg.gbmCreatable) IN
       neg' = IF k = 0 THEN NegFail(neg, "init_gbm")
              ELSE [neg EXCEPT !.gbm_surface = gbm_formats[k], !.pc = "choose_config"]
    /\ UNCHANGED negOthers

\* init_egl: approaches 1 to 3, then eglGetConfigAttrib(EGL_NATIVE_VISUAL_ID)
NegChooseConfig ==
    /\ neg.pc = "choose_config"
    /\ LET a == ChooseApproach(neg.eglConfigs) IN
       IF a = 0
       THEN neg' = NegFail(neg, "choose_config")
       ELSE \E c \in ApproachConfigs(neg.eglConfigs, a), attribOk \in BOOLEAN :
              neg' = [neg EXCEPT !.approach = a,
                                 !.egl_config = c,
                                 !.visualReported = attribOk,
                                 !.gbm_format = IF attribOk THEN c.visual ELSE ApproachFormat(a),
                                 !.pc = "recreate"]
    /\ UNCHANGED negOthers

\* init_egl: destroy the surface of init_gbm, create it again with gbm_format
NegRecreateGbm ==
    /\ neg.pc = "recreate"
    /\ LET r  == RecreateSurface(neg.gbm_format, neg.gbmCreatable)
           n1 == [neg EXCEPT !.destroyed = IF neg.gbm_surface # "NULL" THEN @ + 1 ELSE @,
                             !.gbm_surface = r.surface,
                             !.gbm_format = r.gbm_format,
                             !.tried = r.tried]
       IN  neg' = IF r.surface = "NULL" THEN NegFail(n1, "recreate")
                  ELSE [n1 EXCEPT !.pc = "create_context"]
    /\ UNCHANGED negOthers

\* init_egl: eglCreateContext
NegCreateContext ==
    /\ neg.pc = "create_context"
    /\ \E ok \in BOOLEAN :
         neg' = IF ok THEN [neg EXCEPT !.pc = "create_window"]
                ELSE NegFail(neg, "create_context")
    /\ UNCHANGED negOthers

\* init_egl: eglCreateWindowSurface on the GBM surface; a failure is returned
NegCreateWindowSurface ==
    /\ neg.pc = "create_window"
    /\ LET n1 == [neg EXCEPT !.boundSurface = neg.gbm_surface,
                             !.windowAttempts = @ + 1] IN
       neg' = IF eglCreateWindowSurface(neg.egl_config, neg.gbm_surface)
              THEN [n1 EXCEPT !.pc = "make_current"]
              ELSE NegFail(n1, "create_window")
    /\ UNCHANGED negOthers

\* init_egl: eglMakeCurrent, then display_output_configure sets configured
NegMakeCurrent ==
    /\ neg.pc = "make_current"
    /\ \E ok \in BOOLEAN :
         neg' = IF ok THEN [neg EXCEPT !.pc = "done", !.result = "SUCCEEDED"]
                ELSE NegFail(neg, "make_current")
    /\ UNCHANGED negOthers

InitNeg ==
    /\ pc = "negotiate"
    /\ running = 0
    /\ testIdx = 0
    /\ nextPkt = 1
    /\ packet = ZeroPacket
    /\ packet_count = 0
    /\ attempts = 0
    /\ livePackets = {}
    /\ dec = DecInit
    /\ clones = {}
    /\ frame = ZeroFrame
    /\ temp_frame = ZeroFrame
    /\ rend = RendInit
    /\ disp = [DispInit EXCEPT !.configured = 0]
    /\ neg \in { NegStart(E, G) : E \in SUBSET EglConfigs, G \in SUBSET GbmFormats }
    /\ warp = PipelineWarp(NoFile)
    /\ modeSel = ModeIdle
    /\ fileLen = NumPackets
    /\ boot = BootIdle
    /\ srcFrame = NoAVFrame
    /\ drm = DrmIdle
    /\ acquired = <<>>
    /\ releaseCount = [p \in 0..NumPackets |-> 0]
    /\ presented = <<>>
    /\ submitted = <<>>
    /\ backpressured = {}
    /\ phases = <<>>
    /\ useAfterRelease = FALSE

NextNeg ==
    \/ NegInitGbm
    \/ NegChooseConfig
    \/ NegRecreateGbm
    \/ NegCreateContext
    \/ NegCreateWindowSurface
    \/ NegMakeCurrent

SpecNeg == InitNeg /\ [][NextNeg]_vars

(* ======================================================================= *)
(*                       Properties of the playback loop                   *)
(* ======================================================================= *)

\* C1: when run_playback_loop has left its loop, every frame that
\* hw_decoder_get_frame returned with OK has been passed to
\* hw_decoder_release_frame exactly once.
C1_EveryFrameReleasedOnce ==
    pc = "done" => \A i \in 1..Len(acquired) : releaseCount[acquired[i]] = 1

\* every acquired picture was released exactly once
Balanced == \A i \in 1..Len(acquired) : releaseCount[acquired[i]] = 1

\* C2: whenever every OK hw_decoder_get_frame has been followed by exactly
\* one hw_decoder_release_frame on the same descriptor, the number of picture
\* buffers held by cloned frame references is what it was before the
\* sequence (none).
C2_AcquireReleaseBalance ==
    Balanced => Cardinality(clones) = 0

C2_Witness ==
    Len(acquired) >= 2 /\ Balanced /\ clones = {}

\* C3: a packet that met backpressure is submitted again before any later
\* packet is submitted.
C3_BackpressuredPacketResubmitted ==
    \A q \in backpressured :
        \A i \in 1..Len(submitted) :
            submitted[i] > q => \E j \in 1..(i - 1) : submitted[j] = q

\* C4: the scanout bind has taken effect exactly once as soon as one present
\* call has returned OK, and not at all before; mode_set records it.
C4_FirstPresentOnlyBind ==
    /\ disp.binds = (IF disp.frames_presented > 0 THEN 1 ELSE 0)
    /\ disp.mode_set = disp.binds

C4_Witness ==
    disp.frames_presented >= 2 /\ disp.binds = 1

NoDup(s) == \A i, j \in 1..Len(s) : i # j => s[i] # s[j]

\* C5: the pictures presented by the loop are pairwise distinct and appear in
\* the order in which hw_decoder_get_frame returned them.
C5_PresentedInDecodeOrder ==
    /\ NoDup(presented)
    /\ \A i \in 1..Len(presented) : \E a \in 1..Len(acquired) : acquired[a] = presented[i]
    /\ \A i, j \in 1..Len(presented) :
          i < j => \E a, b \in 1..Len(acquired) :
                      a < b /\ acquired[a] = presented[i] /\ acquired[b] = presented[j]

C5_Witness ==
    Len(presented) >= 2 /\ backpressured # {}

PhaseOrder == <<"acquire", "warp", "composite", "present", "release">>

\* C6: the phases of an iteration run in the order acquire, warp resolve,
\* composite, present, release, and no descriptor is rendered after its
\* release.
C6_PhaseOrderNoUseAfterRelease ==
    /\ \E n \in 0..Len(PhaseOrder) : phases = SubSeq(PhaseOrder, 1, n)
    /\ ~useAfterRelease

C6_Witness ==
    phases = PhaseOrder /\ backpressured # {} /\ Len(acquired) >= 2

\* C7: a render call on a descriptor with num_planes = 0 returns OK and does
\* not enter the DMABUF import path.
C7_PlaceholderSafety ==
    (rend.last_path # "none" /\ rend.last_num_planes = 0)
        => (rend.last_path = "placeholder" /\ rend.last_ret = GPU_RENDERER_OK)

(* ======================================================================= *)
(*                    Properties of the surface negotiation                *)
(* ======================================================================= *)

\* the GPU offers a config that approach 3 accepts, the display can back a
\* surface of the alpha-carrying layout approach 3 defaults to
GenericSupported ==
    /\ eglChooseConfig(neg.eglConfigs, config_attribs3) # {}
    /\ GBM_FORMAT_ARGB8888 \in neg.gbmCreatable

\* C8: when GPU and display support the generic configuration of step 3 the
\* negotiation does not end in FAILED (failures of eglGetConfigAttrib,
\* eglCreateContext and eglMakeCurrent, which are not about formats, set
\* aside).
C8_NegotiationConverges ==
    (/\ GenericSupported
     /\ neg.approach # 0 => neg.visualReported
     /\ neg.failedAt \notin {"create_context", "make_current"})
        => neg.result # "FAILED"

\* GPU and display advertise only the alpha-carrying layout
OnlyAlphaLayout ==
    /\ neg.eglConfigs = {[visual |-> GBM_FORMAT_ARGB8888, rgb |-> 8, alpha |-> 8]}
    /\ neg.gbmCreatable = {GBM_FORMAT_ARGB8888}

C10_SurfaceHasConfigLayout ==
    (neg.boundSurface # "NONE" /\ neg.visualReported)
        => neg.boundSurface = neg.egl_config.visual

IsPrefix(s, t) == Len(s) <= Len(t) /\ s = SubSeq(t, 1, Len(s))

\* C10 amended: at eglCreateWindowSurface the surface of init_gbm has been
\* destroyed and the GBM surface has the layout the config reported, or that
\* layout could not be created and the surface has the first creatable
\* layout of XRGB8888, ARGB8888, RGB565; the fallback layouts are tried only
\* then and in that order, and surface recreation fails only if all fail.
C10_SurfaceLayoutOrFallback ==
    /\ (neg.boundSurface # "NONE" /\ neg.visualReported)
          => /\ neg.destroyed = 1
             /\ \/ neg.boundSurface = neg.egl_config.visual /\ neg.tried = <<>>
                \/ /\ neg.egl_config.visual \notin neg.gbmCreatable
                   /\ neg.tried # <<>>
                   /\ neg.boundSurface = neg.tried[Len(neg.tried)]
                   /\ \A i \in 1..(Len(neg.tried) - 1) : neg.tried[i] \notin neg.gbmCreatable
    /\ IsPrefix(neg.tried, fallback_formats)
    /\ (neg.tried # <<>> /\ neg.visualReported)
          => neg.egl_config.visual \notin neg.gbmCreatable
    /\ neg.failedAt = "recreate"
          => /\ neg.tried = fallback_formats
             /\ \A i \in 1..Len(fallback_formats) : fallback_formats[i] \notin neg.gbmCreatable

C10_Witness ==
    /\ neg.boundSurface # "NONE"
    /\ neg.visualReported
    /\ neg.tried = <<GBM_FORMAT_XRGB8888, GBM_FORMAT_ARGB8888>>
    /\ neg.boundSurface = GBM_FORMAT_ARGB8888

\* C11: an EGL_BAD_MATCH from eglCreateWindowSurface makes init_egl destroy
\* and recreate the backing surface and try the binding again, so the
\* negotiation never ends FAILED at the window binding after one attempt.
C11_MismatchTriggersRecreation ==
    (neg.result = "FAILED" /\ neg.failedAt = "create_window")
        => neg.windowAttempts >= 2

(* ======================================================================= *)
(*          display_output.c: find_display_configuration (modes)           *)
(* ======================================================================= *)

\* longest list of modes a connector advertises here
MaxModes == 3

\* drmModeModeInfo values a connector can advertise: hdisplay, vdisplay,
\* vrefresh and the DRM_MODE_TYPE_PREFERRED bit of type
ModeInfos ==
    [hdisplay : {1920}, vdisplay : {1080}, vrefresh : {30, 60}, preferred : BOOLEAN]
    \cup [hdisplay : {1280}, vdisplay : {720}, vrefresh : {60}, preferred : BOOLEAN]

\* ctx->config.preferred_width / preferred_height / preferred_refresh as
\* display_output_configure stores them
ModeRequests ==
    [preferred_width : {0, 1280, 1920}, preferred_height : {0, 720, 1080},
     preferred_refresh : {0, 60}]

\* the connector's mode lists: connector->count_modes > 0
ModeLists == UNION { [1..n -> ModeInfos] : n \in 1..MaxModes }

RECURSIVE ScanModes(_, _, _, _)
\* the for loop of find_display_configuration from index i on, mode being
\* the index selected so far
ScanModes(modes, config, i, mode) ==
    IF i > Len(modes) THEN mode
    ELSE LET candidate == modes[i]
             m1 == IF candidate.preferred THEN i ELSE mode
         IN
         IF candidate.preferred
            /\ (config.preferred_width = 0 \/ config.preferred_height = 0)
         THEN m1
         ELSE IF /\ config.preferred_width > 0 /\ config.preferred_height > 0
                 /\ candidate.hdisplay = config.preferred_width
                 /\ candidate.vdisplay = config.preferred_height
         THEN IF config.preferred_refresh > 0
              THEN IF candidate.vrefresh = config.preferred_refresh
                   THEN i
                   ELSE ScanModes(modes, config, i + 1, m1)
              ELSE i
         ELSE ScanModes(modes, config, i + 1, m1)

\* find_display_configuration, "Find suitable mode": the index of the mode
\* copied into ctx->mode; mode starts at &connector->modes[0]
find_display_configuration(modes, config) == ScanModes(modes, config, 1, 1)

modeOthers == <<pc, running, loopLocals, decVars, rend, disp, histVars,
                neg, warp, fileLen, boot, srcFrame, drm>>

\* display_output_configure calling find_display_configuration
FindMode ==
    /\ modeSel.pc = "select"
    /\ modeSel' = [modeSel EXCEPT
                     !.mode = find_display_configuration(modeSel.modes, modeSel.config),
                     !.pc = "done"]
    /\ UNCHANGED modeOthers

InitMode ==
    /\ pc = "configure_display"
    /\ running = 0
    /\ testIdx = 0
    /\ nextPkt = 1
    /\ packet = ZeroPacket
    /\ packet_count = 0
    /\ attempts = 0
    /\ livePackets = {}
    /\ dec = DecInit
    /\ clones = {}
    /\ frame = ZeroFrame
    /\ temp_frame = ZeroFrame
    /\ rend = RendInit
    /\ disp = DispInit
    /\ neg = NegIdle
    /\ warp = PipelineWarp(NoFile)
    /\ fileLen = NumPackets
    /\ boot = BootIdle
    /\ srcFrame = NoAVFrame
    /\ drm = DrmIdle
    /\ acquired = <<>>
    /\ releaseCount = [p \in 0..NumPackets |-> 0]
    /\ presented = <<>>
    /\ submitted = <<>>
    /\ backpressured = {}
    /\ phases = <<>>
    /\ useAfterRelease = FALSE
    /\ modeSel \in { [pc |-> "select", modes |-> m, config |-> c, mode |-> 0] :
                       m \in ModeLists, c \in ModeRequests }

NextMode == FindMode

SpecMode == InitMode /\ [][NextMode]_vars

\* a mode matching the request exactly; a refresh of 0 asks for none
ExactMatch(m, config) ==
    /\ m.hdisplay = config.preferred_width
    /\ m.vdisplay = config.preferred_height
    /\ (config.preferred_refresh > 0 => m.vrefresh = config.preferred_refresh)

\* C12: find_display_configuration selects the marked-preferred mode when no
\* resolution was requested, otherwise a mode matching the request exactly
\* when one exists, otherwise the first advertised mode.
C12_ModeSelection ==
    modeSel.pc = "done" =>
        LET modes  == modeSel.modes
            config == modeSel.config
            sel    == modes[modeSel.mode]
            auto   == config.preferred_width = 0 \/ config.preferred_height = 0
        IN  IF auto /\ \E i \in 1..Len(modes) : modes[i].preferred
            THEN sel.preferred
            ELSE IF ~auto /\ \E i \in 1..Len(modes) : ExactMatch(modes[i], config)
            THEN ExactMatch(sel, config)
            ELSE modeSel.mode = 1

(* ======================================================================= *)
(*   pickle.c: the playback loop on a longer file, steady environment      *)
(* ======================================================================= *)

\* number of video packets in the input file of the long-file runs
DrainPackets == 6

\* usleep argument between two hw_decoder_get_frame attempts
retry_sleep_us == IF packet_count <= 5 THEN 20000 ELSE 5000

\* The environment of these runs: rendering and presenting succeed, every
\* decoded picture is an NV12 frame in system memory, no signal arrives.
\* The decoder still answers OK, EAGAIN or an error at each call.
SteadyTestRender == TestPatternRender /\ rend'.last_ret = GPU_RENDERER_OK
SteadyTestPresent == TestPatternPresent /\ disp'.last_ret = DISPLAY_OUTPUT_OK
SteadyDrainGet ==
    DrainGet /\ (acquired' # acquired => temp_frame'.format = AV_PIX_FMT_NV12)
SteadyDrainRender == DrainRender /\ rend'.last_ret = GPU_RENDERER_OK
SteadyDrainPresent == DrainPresent /\ disp'.last_ret = DISPLAY_OUTPUT_OK
SteadyGetFrame ==
    GetFrame /\ (acquired' # acquired => frame'.format = AV_PIX_FMT_NV12)
SteadyRender == Render /\ rend'.last_ret = GPU_RENDERER_OK
SteadyPresent == Present /\ disp'.last_ret = DISPLAY_OUTPUT_OK

InitLong ==
    /\ pc = "test_render"
    /\ running = 0
    /\ testIdx = 0
    /\ nextPkt = 1
    /\ packet = ZeroPacket
    /\ packet_count = 0
    /\ attempts = 0
    /\ livePackets = {}
    /\ dec = DecInit
    /\ clones = {}
    /\ frame = ZeroFrame
    /\ temp_frame = ZeroFrame
    /\ rend = RendInit
    /\ disp = DispInit
    /\ neg = NegIdle
    /\ warp = PipelineWarp(NoFile)
    /\ modeSel = ModeIdle
    /\ fileLen = DrainPackets
    /\ boot = BootIdle
    /\ srcFrame = NoAVFrame
    /\ drm = DrmIdle
    /\ acquired = <<>>
    /\ releaseCount = [p \in 0..DrainPackets |-> 0]
    /\ presented = <<>>
    /\ submitted = <<>>
    /\ backpressured = {}
    /\ phases = <<>>
    /\ useAfterRelease = FALSE

NextLong ==
    \/ SteadyTestRender
    \/ SteadyTestPresent
    \/ StartLoop
    \/ LoopTop
    \/ ReadPacket
    \/ SubmitPacket
    \/ SteadyDrainGet
    \/ DrainWarp
    \/ SteadyDrainRender
    \/ SteadyDrainPresent
    \/ DrainRelease
    \/ SteadyGetFrame
    \/ Warp
    \/ CheckKey
    \/ SteadyRender
    \/ SteadyPresent
    \/ Release

SpecLong == InitLong /\ [][NextLong]_vars

\* C13: about to call hw_decoder_get_frame in the drain loop, fewer than 20
\* calls have answered EAGAIN for each of the first 5 packets and fewer than
\* 5 for every later packet.
C13_DrainRetryBudget ==
    pc = "get" => attempts < (IF packet_count <= 5 THEN 20 ELSE 5)

DrainPcs == {"drain_get", "drain_warp", "drain_render", "drain_present",
             "drain_release"}

\* C14: HW_DECODER_EAGAIN never ends the playback loop.  A submit answered
\* EAGAIN enters the backpressure branch, which always comes back to the top
\* of the loop; a hw_decoder_get_frame that yields no frame, through the
\* whole retry budget, retries or comes back to the top of the loop; and the
\* top of the loop starts the next iteration while running is set.
C14_TransientNotFailure ==
    [][ /\ (pc = "submit" /\ backpressured' # backpressured) => pc' = "drain_get"
        /\ pc \in DrainPcs => pc' \in DrainPcs \cup {"loop_top"}
        /\ (pc = "get" /\ acquired' = acquired) => pc' \in {"get", "loop_top"}
        /\ (pc = "loop_top" /\ running # 0 /\ pc' # pc) => pc' = "read"
      ]_vars

\* a submit was answered EAGAIN in an earlier iteration and the drain loop
\* of the current packet has one attempt of its budget left
C14_Witness ==
    /\ pc = "get"
    /\ attempts = PatientAttempts - 1
    /\ backpressured # {}

\* C15: a failed display_output_present_frame call in the playback loop is
\* fatal: once the last present call of the loop has returned an error, the
\* loop makes no further present call.
C15_PresentFailureFatal ==
    [][ (Len(presented) > 0 /\ disp.last_ret = DISPLAY_OUTPUT_ERROR)
            => presented' = presented ]_vars

\* C16: hw_decoder_release_frame reports an error for a descriptor that is
\* not held (never acquired, or released already).  The function returns
\* void and every call completes, so releaseCount counts the calls that
\* completed without an error: there are never more of them for a picture
\* than hw_decoder_get_frame calls that handed the picture out.
C16_ReleaseOfUnheldRejected ==
    \A p \in DOMAIN releaseCount :
        releaseCount[p] <= Cardinality({ i \in 1..Len(acquired) : acquired[i] = p })

\* positions inside the while loop of run_playback_loop
LoopPcs == {"loop_top", "read", "submit", "get", "warp", "key", "render",
            "present", "release"} \cup DrainPcs

\* C17: once running is cleared inside the playback loop it stays cleared,
\* the next while test leaves the loop instead of reading a packet, and the
\* loop is left after the iteration in progress, whichever way it ends.
C17_StopAfterCurrentIteration ==
    /\ [][ /\ (pc \in LoopPcs /\ running = 0) => running' = 0
           /\ (pc = "loop_top" /\ running = 0 /\ pc' # pc) => pc' = "done"
         ]_vars
    /\ ((pc \in LoopPcs /\ running = 0) ~> (pc = "done"))

\* running was cleared and the loop is back at its while test after a
\* backpressure `continue`, the packet of that iteration still unfreed
C17_Witness ==
    /\ pc = "loop_top"
    /\ running = 0
    /\ backpressured # {}
    /\ packet.private_data # NULL

(* ======================================================================= *)
(*        The warp control API on its own: any order of its calls          *)
(* ======================================================================= *)

\* most warp control calls made on the context
MaxWarpOps == 3
\* most key events pending on stdin at one warp_control_process_input call
MaxKeys == 2

KeySeqs == UNION { [1..n -> Keys] : n \in 0..MaxKeys }

warpOthers == <<pc, running, loopLocals, decVars, disp, histVars,
                neg, modeSel, fileLen, boot, srcFrame, drm>>

\* warp_control_configure(ctx, renderer_ctx)
ApiWarpConfigure ==
    /\ pc = "warp_api"
    /\ warp.ops < MaxWarpOps
    /\ \E termOk \in BOOLEAN :
         warp' = [warp_control_configure(warp, termOk) EXCEPT !.ops = @ + 1]
    /\ UNCHANGED <<rend, warpOthers>>

\* warp_control_load_config(ctx, "warp_config.txt") called by the application
ApiWarpLoadConfig ==
    /\ pc = "warp_api"
    /\ warp.ops < MaxWarpOps
    /\ LET ld == warp_control_load_config(warp) IN
         warp' = [ld.w EXCEPT !.prev_op = warp.last_op,
                              !.prev_matrix = warp.current_matrix,
                              !.keys_changed = FALSE,
                              !.last_op = "load", !.last_ret = ld.ret,
                              !.ops = @ + 1]
    /\ UNCHANGED <<rend, warpOthers>>

\* warp_control_process_input(ctx) with any key events pending
ApiWarpProcessInput ==
    /\ pc = "warp_api"
    /\ warp.ops < MaxWarpOps
    /\ \E keys \in KeySeqs, saveOk \in BOOLEAN :
         LET p == warp_control_process_input(warp, rend, keys, saveOk) IN
         /\ warp' = [p.w EXCEPT !.ops = @ + 1]
         /\ rend' = p.r
    /\ UNCHANGED warpOthers

\* warp_control_reset(ctx)
ApiWarpReset ==
    /\ pc = "warp_api"
    /\ warp.ops < MaxWarpOps
    /\ LET p == warp_control_reset(warp, rend) IN
         /\ warp' = [p.w EXCEPT !.ops = @ + 1]
         /\ rend' = p.r
    /\ UNCHANGED warpOthers

InitWarp ==
    /\ pc = "warp_api"
    /\ running = 0
    /\ testIdx = 0
    /\ nextPkt = 1
    /\ packet = ZeroPacket
    /\ packet_count = 0
    /\ attempts = 0
    /\ livePackets = {}
    /\ dec = DecInit
    /\ clones = {}
    /\ frame = ZeroFrame
    /\ temp_frame = ZeroFrame
    /\ rend = RendInit
    /\ disp = DispInit
    /\ neg = NegIdle
    /\ modeSel = ModeIdle
    /\ fileLen = NumPackets
    /\ boot = BootIdle
    /\ srcFrame = NoAVFrame
    /\ drm = DrmIdle
    /\ acquired = <<>>
    /\ releaseCount = [p \in 0..NumPackets |-> 0]
    /\ presented = <<>>
    /\ submitted = <<>>
    /\ backpressured = {}
    /\ phases = <<>>
    /\ useAfterRelease = FALSE
    /\ warp \in { [warp_control_create EXCEPT !.file = f] : f \in ConfigFiles }

NextWarp ==
    \/ ApiWarpConfigure
    \/ ApiWarpLoadConfig
    \/ ApiWarpProcessInput
    \/ ApiWarpReset

SpecWarp == InitWarp /\ [][NextWarp]_vars

\* C18: two warp_control_process_input calls in a row that both reach
\* update_matrix, the second without a parameter change from its key events:
\* the matrix after the second equals the matrix after the first, the second
\* did not generate a matrix, and matrix_dirty is 0.
C18_ResolveIdempotent ==
    (/\ warp.last_op = "resolve"
     /\ warp.prev_op = "resolve"
     /\ ~warp.keys_changed)
        => /\ warp.current_matrix.matrix = warp.prev_matrix.matrix
           /\ ~warp.recomputed
           /\ warp.matrix_dirty = 0

\* C19: after warp_control_reset (which resolves), and after a
\* warp_control_process_input that follows it without a parameter change,
\* the matrix is the identity and matrix_dirty is 0.
C19_ResetYieldsIdentity ==
    (\/ warp.last_op = "reset"
     \/ (warp.prev_op = "reset" /\ warp.last_op = "resolve" /\ ~warp.keys_changed))
        => /\ warp.current_matrix.matrix = matrix_identity
           /\ warp.matrix_dirty = 0

\* C20: in the playback loop, between warp_control_process_input and the
\* render call of the same frame, the renderer's matrix is the matrix
\* generated from the warp parameters and matrix_dirty is 0.
C20_WarpConsumedPerFrame ==
    pc \in {"key", "render", "drain_render"}
        => /\ rend.warp_matrix.matrix =
                GenerateMatrix(warp.params, warp.current_matrix).matrix
           /\ warp.matrix_dirty = 0

(* ======================================================================= *)
(*     The presentation API on its own: configure and present, any order   *)
(* ======================================================================= *)

\* successful display_output_present_frame calls on one context
MaxPresents == 6

\* differences of the two gettimeofday readings of one present call, in
\* microseconds: gettimeofday reads the wall clock, which can be set back
ClockDeltas == {-2, -1, 0, 1, 2}

\* display_output_configure: ok is whether the DRM device, the mode, the
\* CRTC, GBM and EGL could all be set up
display_output_configure(d, ok) ==
    IF ok THEN [d EXCEPT !.configured = 1] ELSE d

ApiDisplayConfigure ==
    /\ pc = "disp_api"
    /\ \E ok \in BOOLEAN : disp' = display_output_configure(disp, ok)
    /\ UNCHANGED <<pc, running, loopLocals, decVars, rend, cfgVars, warp, histVars>>

ApiPresentFrame ==
    /\ pc = "disp_api"
    /\ disp.frames_presented < MaxPresents
    /\ \E out \in PresentOutcomes, dt \in ClockDeltas :
         disp' = display_output_present_frame(disp, out, dt)
    /\ UNCHANGED <<pc, running, loopLocals, decVars, rend, cfgVars, warp, histVars>>

InitPresent ==
    /\ pc = "disp_api"
    /\ running = 0
    /\ testIdx = 0
    /\ nextPkt = 1
    /\ packet = ZeroPacket
    /\ packet_count = 0
    /\ attempts = 0
    /\ livePackets = {}
    /\ dec = DecInit
    /\ clones = {}
    /\ frame = ZeroFrame
    /\ temp_frame = ZeroFrame
    /\ rend = RendInit
    /\ disp = DispCreated
    /\ neg = NegIdle
    /\ warp = PipelineWarp(NoFile)
    /\ modeSel = ModeIdle
    /\ fileLen = NumPackets
    /\ boot = BootIdle
    /\ srcFrame = NoAVFrame
    /\ drm = DrmIdle
    /\ acquired = <<>>
    /\ releaseCount = [p \in 0..NumPackets |-> 0]
    /\ presented = <<>>
    /\ submitted = <<>>
    /\ backpressured = {}
    /\ phases = <<>>
    /\ useAfterRelease = FALSE

NextPresent ==
    \/ ApiDisplayConfigure
    \/ ApiPresentFrame

SpecPresent == InitPresent /\ [][NextPresent]_vars

\* C21: the presentation statistics never decrease; a present call that
\* returns OK adds exactly 1 to frames_presented, a present call that returns
\* an error leaves both counters as they were, and no other operation writes
\* them.
C21_StatisticsMonotone ==
    [][ /\ disp'.frames_presented >= disp.frames_presented
        /\ disp'.total_present_time_us >= disp.total_present_time_us
        /\ ApiPresentFrame =>
             IF disp'.last_ret = DISPLAY_OUTPUT_OK
             THEN disp'.frames_presented = disp.frames_presented + 1
             ELSE /\ disp'.frames_presented = disp.frames_presented
                  /\ disp'.total_present_time_us = disp.total_present_time_us
        /\ ~ApiPresentFrame =>
             /\ disp'.frames_presented = disp.frames_presented
             /\ disp'.total_present_time_us = disp.total_present_time_us ]_vars

\* C24: a present call on a context whose negotiation has not succeeded
\* returns an error and swaps no buffer, binds no scanout buffer and leaves
\* mode_set and the statistics unchanged.
C24_PresentUnconfiguredRejected ==
    [][ (ApiPresentFrame /\ disp.configured = 0) =>
          /\ disp'.last_ret = DISPLAY_OUTPUT_ERROR
          /\ disp'.last_swaps = 0
          /\ disp'.last_binds = 0
          /\ disp'.binds = disp.binds
          /\ disp'.mode_set = disp.mode_set
          /\ disp'.frames_presented = disp.frames_presented
          /\ disp'.total_present_time_us = disp.total_present_time_us ]_vars

\* a present call was made on a context that was never configured
C24_Witness ==
    /\ pc = "disp_api"
    /\ disp.configured = 0
    /\ disp.last_ret = DISPLAY_OUTPUT_ERROR

(* ======================================================================= *)
(*          pickle.c: main, init_pipeline and the fallback player          *)
(* ======================================================================= *)

EXIT_SUCCESS == 0
EXIT_FAILURE == 1
FALLBACK_OK == 0
FALLBACK_ERROR == -1

\* argv[1] values
MediaPaths == {"a.mp4", "b.mp4"}

\* g_player_state and main's locals when main is entered with argc == 2.
\* failedAt is the call of init_pipeline that made it return a negative
\* value; cleanups, try_fallback_calls, play_calls, init_calls and
\* loop_entered record what main has done so far.
BootStart(path, readable) ==
    [pc |-> "main", video_file |-> path, readable |-> readable,
     input_ctx |-> NULL, decoder_ctx |-> NULL, display_ctx |-> NULL,
     renderer_ctx |-> NULL, warp_ctx |-> NULL,
     ret |-> 0, failedAt |-> "none", init_calls |-> 0, cleanups |-> 0,
     try_fallback_calls |-> 0, fallback_path |-> "none", play_calls |-> 0,
     loop_entered |-> FALSE, exit |-> "none"]

\* init_pipeline returning ret from the failed call
InitFail(b, where, ret) ==
    [b EXCEPT !.pc = "init_failed", !.failedAt = where, !.ret = ret]

bootOthers == <<pc, running, loopLocals, decVars, rend, disp, histVars,
                neg, warp, modeSel, fileLen, srcFrame, drm>>

\* main up to the init_pipeline call: access(video_file, R_OK), the signal
\* handlers, configure_terminal
MainStart ==
    /\ boot.pc = "main"
    /\ boot' = IF ~boot.readable
               THEN [boot EXCEPT !.pc = "exit", !.exit = EXIT_FAILURE]
               ELSE [boot EXCEPT !.pc = "init_input", !.init_calls = @ + 1]
    /\ UNCHANGED bootOthers

\* init_pipeline, 1. Initialize video input
InitVideoInput ==
    /\ boot.pc = "init_input"
    /\ \E out \in {"create_fail", "open_fail", "info_fail", "ok"} :
         boot' =
           IF out = "create_fail" THEN InitFail(boot, "video_input_create", -1)
           ELSE LET b == [boot EXCEPT !.input_ctx = 1] IN
                IF out = "open_fail" THEN InitFail(b, "video_input_open", -1)
                ELSE IF out = "info_fail"
                THEN InitFail(b, "video_input_get_stream_info", -1)
                ELSE [b EXCEPT !.pc = "init_decoder"]
    /\ UNCHANGED bootOthers

\* init_pipeline, 2. Initialize hardware decoder
InitHwDecoder ==
    /\ boot.pc = "init_decoder"
    /\ \E out \in {"create_fail", "configure_fail", "ok"} :
         boot' =
           IF out = "create_fail" THEN InitFail(boot, "hw_decoder_create", -1)
           ELSE LET b == [boot EXCEPT !.decoder_ctx = 1] IN
                IF out = "configure_fail"
                THEN InitFail(b, "hw_decoder_configure", HW_DECODER_ERROR)
                ELSE [b EXCEPT !.pc = "init_display"]
    /\ UNCHANGED bootOthers

\* init_pipeline, 3. Initialize display output
InitDisplayOutput ==
    /\ boot.pc = "init_display"
    /\ \E out \in {"create_fail", "configure_fail", "ok"} :
         boot' =
           IF out = "create_fail" THEN InitFail(boot, "display_output_create", -1)
           ELSE LET b == [boot EXCEPT !.display_ctx = 1] IN
                IF out = "configure_fail"
                THEN InitFail(b, "display_output_configure", DISPLAY_OUTPUT_ERROR)
                ELSE [b EXCEPT !.pc = "init_renderer"]
    /\ UNCHANGED bootOthers

\* init_pipeline, 4. Initialize GPU renderer
InitGpuRenderer ==
    /\ boot.pc = "init_renderer"
    /\ \E out \in {"create_fail", "configure_fail", "ok"} :
         boot' =
           IF out = "create_fail" THEN InitFail(boot, "gpu_renderer_create", -1)
           ELSE LET b == [boot EXCEPT !.renderer_ctx = 1] IN
                IF out = "configure_fail"
                THEN InitFail(b, "gpu_renderer_configure", GPU_RENDERER_ERROR)
                ELSE [b EXCEPT !.pc = "init_warp"]
    /\ UNCHANGED bootOthers

\* init_pipeline, 5. Initialize warp control: a failed
\* warp_control_load_config is not fatal
InitWarpControl ==
    /\ boot.pc = "init_warp"
    /\ \E out \in {"create_fail", "load_fail", "ok"} :
         boot' =
           IF out = "create_fail" THEN InitFail(boot, "warp_control_create", -1)
           ELSE [boot EXCEPT !.warp_ctx = 1, !.pc = "init_test"]
    /\ UNCHANGED bootOthers

\* init_pipeline, the test pattern loop: a failed render or present call
\* only ends the loop, init_pipeline returns 0
InitTestPattern ==
    /\ boot.pc = "init_test"
    /\ \E out \in {"render_fail", "present_fail", "ok"} :
         boot' = [boot EXCEPT !.pc = "playback", !.ret = 0]
    /\ UNCHANGED bootOthers

\* cleanup_pipeline
cleanup_pipeline(b) ==
    [b EXCEPT !.warp_ctx = NULL, !.renderer_ctx = NULL, !.display_ctx = NULL,
              !.decoder_ctx = NULL, !.input_ctx = NULL, !.cleanups = @ + 1]

\* a main that goes on to the playback loop when init_pipeline has failed
MainInitFailed_proceed ==
    /\ boot.pc = "init_failed"
    /\ boot' = [boot EXCEPT !.pc = "playback"]
    /\ UNCHANGED bootOthers

\* main, if (ret < 0) after init_pipeline: cleanup_pipeline, restore_terminal
MainInitFailed ==
    /\ boot.pc = "init_failed"
    /\ boot' = [cleanup_pipeline(boot) EXCEPT !.pc = "fallback"]
    /\ UNCHANGED bootOthers

\* main, return try_fallback_playback(video_file): fallback_create,
\* fallback_play_file, fallback_destroy
try_fallback_playback ==
    /\ boot.pc = "fallback"
    /\ \E out \in {"create_fail", "play_fail", "ok"} :
         LET b == [boot EXCEPT !.try_fallback_calls = @ + 1,
                               !.fallback_path = boot.video_file,
                               !.pc = "exit"]
         IN  boot' =
               IF out = "create_fail" THEN [b EXCEPT !.exit = -1]
               ELSE IF out = "play_fail"
               THEN [b EXCEPT !.play_calls = @ + 1, !.exit = FALLBACK_ERROR]
               ELSE [b EXCEPT !.play_calls = @ + 1, !.exit = FALLBACK_OK]
    /\ UNCHANGED bootOthers

\* main, run_playback_loop (which returns 0 at every exit), cleanup_pipeline,
\* restore_terminal and the exit status
MainPlayback ==
    /\ boot.pc = "playback"
    /\ LET ret == 0
           b   == [cleanup_pipeline(boot) EXCEPT !.loop_entered = TRUE, !.pc = "exit"]
       IN  boot' = [b EXCEPT !.exit = IF ret < 0 THEN EXIT_FAILURE ELSE EXIT_SUCCESS]
    /\ UNCHANGED bootOthers

InitBoot ==
    /\ pc = "boot"
    /\ running = 0
    /\ testIdx = 0
    /\ nextPkt = 1
    /\ packet = ZeroPacket
    /\ packet_count = 0
    /\ attempts = 0
    /\ livePackets = {}
    /\ dec = DecInit
    /\ clones = {}
    /\ frame = ZeroFrame
    /\ temp_frame = ZeroFrame
    /\ rend = RendInit
    /\ disp = DispInit
    /\ neg = NegIdle
    /\ warp = PipelineWarp(NoFile)
    /\ modeSel = ModeIdle
    /\ fileLen = NumPackets
    /\ \E path \in MediaPaths, readable \in BOOLEAN : boot = BootStart(path, readable)
    /\ srcFrame = NoAVFrame
    /\ drm = DrmIdle
    /\ acquired = <<>>
    /\ releaseCount = [p \in 0..NumPackets |-> 0]
    /\ presented = <<>>
    /\ submitted = <<>>
    /\ backpressured = {}
    /\ phases = <<>>
    /\ useAfterRelease = FALSE

NextBoot ==
    \/ MainStart
    \/ InitVideoInput
    \/ InitHwDecoder
    \/ InitDisplayOutput
    \/ InitGpuRenderer
    \/ InitWarpControl
    \/ InitTestPattern
    \/ MainInitFailed
    \/ try_fallback_playback
    \/ MainPlayback

SpecBoot == InitBoot /\ [][NextBoot]_vars

\* the calls of init_pipeline whose failure is a configuration error: decoder
\* configuration, display negotiation, GPU program and geometry setup
ConfigurationCalls ==
    {"hw_decoder_configure", "display_output_configure", "gpu_renderer_configure"}

\* C22: when init_pipeline fails with a configuration error, main never
\* enters the playback loop and never calls init_pipeline again; it calls
\* try_fallback_playback at most once, only after cleanup_pipeline and with
\* the original media path, and it has called it once when it exits.
C22_ConfigFailureFallsBackOnce ==
    boot.failedAt \in ConfigurationCalls =>
        /\ ~boot.loop_entered
        /\ boot.pc # "playback"
        /\ boot.init_calls = 1
        /\ boot.try_fallback_calls <= 1
        /\ boot.play_calls <= 1
        /\ boot.try_fallback_calls = 1 =>
             (boot.cleanups = 1 /\ boot.fallback_path = boot.video_file)
        /\ boot.pc = "fallback" => boot.cleanups = 1
        /\ boot.pc = "exit" => boot.try_fallback_calls = 1

\* main has exited through the fallback player after the display negotiation
\* failed
C22_Witness ==
    /\ boot.pc = "exit"
    /\ boot.failedAt = "display_output_configure"
    /\ boot.try_fallback_calls = 1
    /\ boot.play_calls = 1

\* C23: the fallback player is invoked only when display_output_configure or
\* hw_decoder_configure failed during start-up.
C23_FallbackOnlyForNegotiationOrDecoder ==
    boot.try_fallback_calls > 0 =>
        boot.failedAt \in {"display_output_configure", "hw_decoder_configure"}

\* C25: gpu_renderer_render_frame performs no buffer swap, on the placeholder
\* path and on the texture path; the one swap of a picture is the one of
\* display_output_present_frame.
C25_SwapOnlyInPresent ==
    /\ rend.last_swaps = 0
    /\ (pc \in {"release", "drain_release"} /\ disp.last_ret = DISPLAY_OUTPUT_OK) =>
         rend.last_swaps + disp.last_swaps = 1

(* ======================================================================= *)
(*   The decoder-to-renderer hand-over on its own: fill one descriptor     *)
(*   from any AVFrame, composite it, release it                            *)
(* ======================================================================= *)

\* hw_decoder_get_frame(&frame) when the codec has picture nextPkt ready,
\* delivered as an AVFrame of any kind
ApiRendGetFrame ==
    /\ pc = "rend_api"
    /\ nextPkt <= NumPackets
    /\ frame.av_frame = NULL
    /\ \E kind \in AllFrameKinds :
         LET d == [dec EXCEPT !.pending = <<nextPkt>>]
             r == hw_decoder_get_frame(d, clones, frame, "FRAME", kind, TRUE)
         IN  /\ dec' = r.dec
             /\ clones' = r.clones
             /\ frame' = r.frame
             /\ srcFrame' = IF r.ret = HW_DECODER_OK
                            THEN [kind EXCEPT !.pts = nextPkt] ELSE NoAVFrame
             /\ acquired' = IF r.ret = HW_DECODER_OK
                            THEN Append(acquired, nextPkt) ELSE acquired
    /\ nextPkt' = nextPkt + 1
    /\ UNCHANGED <<pc, running, testIdx, packet, packet_count, attempts, livePackets,
                   temp_frame, rend, disp, neg, modeSel, fileLen, boot, drm, warp,
                   releaseCount, presented, submitted, backpressured, phases,
                   useAfterRelease>>

\* gpu_renderer_render_frame(&frame) on the held descriptor
ApiRendRenderFrame ==
    /\ pc = "rend_api"
    /\ frame.av_frame # NULL
    /\ \E imageOk \in BOOLEAN :
         rend' = gpu_renderer_render_frame(rend, frame, imageOk)
    /\ UNCHANGED <<pc, running, loopLocals, decVars, disp, cfgVars, warp, histVars>>

\* hw_decoder_release_frame(&frame) on the held descriptor
ApiRendReleaseFrame ==
    /\ pc = "rend_api"
    /\ frame.av_frame # NULL
    /\ clones' = ReleaseClones(clones, frame)
    /\ frame' = hw_decoder_release_frame(frame)
    /\ releaseCount' = [releaseCount EXCEPT ![frame.timestamp_us] = @ + 1]
    /\ UNCHANGED <<pc, running, loopLocals, dec, temp_frame, rend, disp, cfgVars, warp,
                   acquired, presented, submitted, backpressured, phases,
                   useAfterRelease>>

InitRend ==
    /\ pc = "rend_api"
    /\ running = 0
    /\ testIdx = 0
    /\ nextPkt = 1
    /\ packet = ZeroPacket
    /\ packet_count = 0
    /\ attempts = 0
    /\ livePackets = {}
    /\ dec = DecInit
    /\ clones = {}
    /\ frame = ZeroFrame
    /\ temp_frame = ZeroFrame
    /\ rend = RendInit
    /\ disp = DispInit
    /\ neg = NegIdle
    /\ warp = PipelineWarp(NoFile)
    /\ modeSel = ModeIdle
    /\ fileLen = NumPackets
    /\ boot = BootIdle
    /\ srcFrame = NoAVFrame
    /\ drm = DrmIdle
    /\ acquired = <<>>
    /\ releaseCount = [p \in 0..NumPackets |-> 0]
    /\ presented = <<>>
    /\ submitted = <<>>
    /\ backpressured = {}
    /\ phases = <<>>
    /\ useAfterRelease = FALSE

NextRend ==
    \/ ApiRendGetFrame
    \/ ApiRendRenderFrame
    \/ ApiRendReleaseFrame

SpecRend == InitRend /\ [][NextRend]_vars

\* the descriptor is held: hw_decoder_get_frame returned it with OK and it
\* has not been released since
Held == frame.av_frame # NULL

\* C27: a descriptor returned with OK has between 0 and 3 planes, and each
\* of its planes carries the handle, offset and pitch that the decoder's
\* frame descriptor gives for that plane of that frame.
C27_PlaneHandlesFromThisFrame ==
    Held =>
        /\ frame.num_planes \in 0..3
        /\ \A i \in 1..frame.num_planes :
             /\ frame.dmabuf_fd[i] = FdOf(srcFrame.pts, object_index(srcFrame, i))
             /\ frame.offsets[i] = plane_offset(srcFrame, i)
             /\ frame.pitches[i] = plane_pitch(srcFrame, i)

\* C28: the attributes of the image import of a held picture are the width
\* and height of its descriptor and the handle, offset and pitch of the plane
\* that is imported (plane 0).
C28_ImportAttributesFromDescriptor ==
    (Held /\ frame.num_planes > 0 /\ rend.last_path = "import"
          /\ rend.last_attribs # NoAttribs /\ rend.last_attribs.fd = frame.dmabuf_fd[1]) =>
        /\ rend.last_attribs.width = frame.width
        /\ rend.last_attribs.height = frame.height
        /\ rend.last_attribs.fd = frame.dmabuf_fd[1]
        /\ rend.last_attribs.offset = frame.offsets[1]
        /\ rend.last_attribs.pitch = frame.pitches[1]

\* the chroma layout of the picture in a DRM PRIME AVFrame
ChromaLayout(avf) ==
    IF avf.layer_format = DRM_FORMAT_NV12 /\ avf.nb_planes = 2 THEN "semi-planar"
    ELSE IF avf.layer_format = DRM_FORMAT_YUV420 /\ avf.nb_planes = 3 THEN "planar"
    ELSE "other"

\* C29: after a semi-planar or planar picture with plane handles was
\* composited, the program in use is the NV12 one exactly when the picture
\* is semi-planar and the YUV420 one exactly when it is planar.
C29_ProgramMatchesChromaLayout ==
    (Held /\ frame.num_planes > 0 /\ rend.last_path = "import"
          /\ rend.last_ret = GPU_RENDERER_OK
          /\ rend.last_attribs.fd = frame.dmabuf_fd[1]
          /\ ChromaLayout(srcFrame) \in {"semi-planar", "planar"}) =>
        /\ ChromaLayout(srcFrame) = "semi-planar" <=> rend.current_program = "nv12"
        /\ ChromaLayout(srcFrame) = "planar" <=> rend.current_program = "yuv420"

\* C30: when gpu_renderer_render_frame has returned, no texture and no
\* imported image it created is left, on success and on import failure, and
\* the call changes neither the descriptor nor the set of held picture
\* buffers.
C30_RenderLeavesNothingBehind ==
    /\ [](rend.live_textures = 0 /\ rend.live_images = 0)
    /\ [][ApiRendRenderFrame => (frame' = frame /\ clones' = clones)]_vars

\* a held picture with a plane handle was composited through the import path
C30_Witness ==
    /\ Held
    /\ rend.last_path = "import"
    /\ rend.last_ret = GPU_RENDERER_OK
    /\ rend.last_attribs.fd = frame.dmabuf_fd[1]

\* C26: every change of the warp parameters raises the dirty flag: whenever
\* matrix_dirty is 0, the current matrix is the matrix computed from the
\* current parameters.
C26_CleanMeansMatrixCurrent ==
    warp.matrix_dirty = 0 =>
        warp.current_matrix.matrix = GenerateMatrix(warp.params, warp.current_matrix).matrix

\* the last call generated a matrix from keystone parameters
KeystoneResolved ==
    /\ warp.params.mode = WARP_MODE_KEYSTONE
    /\ warp.last_op \in {"resolve", "reset"}
    /\ warp.recomputed

\* C31: a matrix generated in keystone mode is the identity except for the
\* horizontal shear entry, which is 0.5 * keystone_h, and the vertical shear
\* entry, which is 0.5 * keystone_v; with both coefficients 0 it is the
\* identity.
C31_KeystoneMatrix ==
    KeystoneResolved =>
        LET m == warp.current_matrix.matrix IN
        /\ \A i \in (0..15) \ {1, 4} : m[i] = matrix_identity[i]
        /\ 2 * CoordOne * m[1] = MatrixOne * warp.params.keystone_h
        /\ 2 * CoordOne * m[4] = MatrixOne * warp.params.keystone_v
        /\ (warp.params.keystone_h = 0 /\ warp.params.keystone_v = 0) =>
             m = matrix_identity

\* a matrix was generated from non-zero keystone coefficients
C31_Witness ==
    /\ KeystoneResolved
    /\ warp.params.keystone_h # 0
    /\ warp.params.keystone_v # 0

\* a matrix was generated in keystone mode with both coefficients 0
C31_WitnessZero ==
    /\ KeystoneResolved
    /\ warp.params.keystone_h = 0
    /\ warp.params.keystone_v = 0

\* C32: at every point of the playback loop at most one decoded frame is
\* held, i.e. acquired by an OK hw_decoder_get_frame and not yet released, on
\* the main path and on the backpressure-drain path.
C32_AtMostOneFrameHeld ==
    /\ Cardinality(clones) <= 1
    /\ ~(frame.av_frame \in clones /\ temp_frame.av_frame \in clones
         /\ frame.av_frame # temp_frame.av_frame)

\* a frame is held on the main path after an earlier one was released
C32_Witness ==
    /\ pc \in {"warp", "key", "render", "present", "release"}
    /\ frame.av_frame \in clones
    /\ \E p \in DOMAIN releaseCount : releaseCount[p] >= 1

\* a frame is held on the backpressure-drain path
C32_WitnessDrain ==
    /\ pc \in {"drain_warp", "drain_render", "drain_present", "drain_release"}
    /\ temp_frame.av_frame \in clones

\* C33: every packet video_input_read_packet returned with OK has been freed
\* by video_input_free_packet before the next packet is read and before the
\* loop exits: no AVPacket is allocated when the loop is about to read or is
\* over, and at most one is allocated in between.
C33_PacketFreedBeforeNextRead ==
    /\ pc \in {"loop_top", "read", "done"} => livePackets = {}
    /\ Cardinality(livePackets) <= 1

\* C34: a termination signal delivered at any time after the handlers are
\* installed, init_pipeline included, makes the playback loop exit: once
\* signal_handler has run, the running flag is 0 and stays 0, and the next
\* while test of the playback loop leaves the loop.
C34_SignalStopsPlayback ==
    /\ [](boot.signalled => running = 0)
    /\ [][(boot.signalled /\ pc = "loop_top" /\ pc' # pc) => pc' = "done"]_vars

\* every coordinate of every corner point lies within [-2.0, 2.0]
CornersInRange(params) ==
    \A i \in 1..4 : \A j \in 1..2 :
        /\ params.corners[i][j] >= -CornerLimit
        /\ params.corners[i][j] <= CornerLimit

\* C35: after the keyboard events of a warp_control_process_input call have
\* been processed by process_keyboard, starting from the default parameters,
\* every coordinate of every corner point lies within [-2.0, 2.0].
C35_CornersStayInRange ==
    [][ ( /\ warp.params = init_default_params
          /\ warp.stdin_configured # 0
          /\ warp'.ops = warp.ops + 1
          /\ warp'.last_op \in {"resolve", "quit"} )
        => CornersInRange(warp'.params) ]_vars

\* the external calls of the first-frame scanout bind
BindCalls == {"gbm_surface_lock_front_buffer", "drmModeAddFB", "drmModeSetCrtc"}

\* C36: when the first-frame scanout bind fails at any step (front-buffer
\* lock, add framebuffer, set CRTC), display_output_present_frame returns an
\* error with mode_set still 0 and frames_presented unchanged, no framebuffer
\* object it created is left and no front buffer it locked is still locked,
\* and the next call that gets past eglSwapBuffers attempts the bind again.
C36_FailedBindLeavesNothing ==
    /\ [](disp.locked = 0 /\ disp.fbs = disp.binds)
    /\ [][ /\ ( /\ disp' # disp
                /\ disp.configured = 1
                /\ disp'.last_failed_call \in BindCalls )
              => /\ disp'.last_ret = DISPLAY_OUTPUT_ERROR
                 /\ disp.mode_set = 0
                 /\ disp'.mode_set = 0
                 /\ disp'.frames_presented = disp.frames_presented
                 /\ disp'.fbs = disp.fbs
                 /\ disp'.locked = disp.locked
           /\ ( /\ disp.last_failed_call \in BindCalls
                /\ disp'.last_swaps = 1 )
              => disp'.last_locks = 1
         ]_vars

\* the bind of the first frame has just failed at drmModeSetCrtc, after a
\* front buffer was locked and a framebuffer object added
C36_Witness ==
    /\ disp.last_failed_call = "drmModeSetCrtc"
    /\ disp.last_ret = DISPLAY_OUTPUT_ERROR
    /\ disp.mode_set = 0

\* the bind has just failed at drmModeAddFB
C36_WitnessAddFB ==
    disp.last_failed_call = "drmModeAddFB" /\ disp.mode_set = 0

\* the bind has just failed at gbm_surface_lock_front_buffer
C36_WitnessLock ==
    disp.last_failed_call = "gbm_surface_lock_front_buffer" /\ disp.mode_set = 0

(* ======================================================================= *)
(*     drm_display.c on its own: drm_swap_buffers calls, then drm_cleanup  *)
(* ======================================================================= *)

\* most drm_swap_buffers calls before drm_cleanup
MaxSwaps == 8

\* drm_swap_buffers(drm), whatever gbm_surface_lock_front_buffer returns
ApiDrmSwapBuffers ==
    /\ pc = "drm_api"
    /\ drm.phase = "open"
    /\ drm.swaps < MaxSwaps
    /\ \E bo \in DrmLockOutcomes(drm) : drm' = drm_swap_buffers(drm, bo)
    /\ UNCHANGED <<pc, running, loopLocals, decVars, rend, disp, histVars,
                   neg, warp, modeSel, fileLen, boot, srcFrame>>

\* drm_cleanup(drm)
ApiDrmCleanup ==
    /\ pc = "drm_api"
    /\ drm.phase = "open"
    /\ drm' = drm_cleanup(drm)
    /\ UNCHANGED <<pc, running, loopLocals, decVars, rend, disp, histVars,
                   neg, warp, modeSel, fileLen, boot, srcFrame>>

InitDrm ==
    /\ pc = "drm_api"
    /\ running = 0
    /\ testIdx = 0
    /\ nextPkt = 1
    /\ packet = ZeroPacket
    /\ packet_count = 0
    /\ attempts = 0
    /\ livePackets = {}
    /\ dec = DecInit
    /\ clones = {}
    /\ frame = ZeroFrame
    /\ temp_frame = ZeroFrame
    /\ rend = RendInit
    /\ disp = DispInit
    /\ neg = NegIdle
    /\ warp = PipelineWarp(NoFile)
    /\ modeSel = ModeIdle
    /\ fileLen = NumPackets
    /\ boot = BootIdle
    /\ srcFrame = NoAVFrame
    /\ drm = DrmInit
    /\ acquired = <<>>
    /\ releaseCount = [p \in 0..NumPackets |-> 0]
    /\ presented = <<>>
    /\ submitted = <<>>
    /\ backpressured = {}
    /\ phases = <<>>
    /\ useAfterRelease = FALSE

NextDrm ==
    \/ ApiDrmSwapBuffers
    \/ ApiDrmCleanup

SpecDrm == InitDrm /\ [][NextDrm]_vars

\* C37: for any sequence of drm_swap_buffers calls followed by drm_cleanup:
\* after each successful swap exactly one front buffer is held locked, the
\* one just locked, the previous one having been released; a failed lock
\* leaves the previously held buffer held and unreleased; no buffer object is
\* ever released twice or released after the surface was destroyed, and
\* drm_cleanup leaves none locked.
C37_OneFrontBufferHeld ==
    /\ [](/\ ~drm.double_release
          /\ ~drm.release_after_destroy
          /\ drm.phase = "cleaned" => drm.locked = {}
          /\ (drm.phase = "open" /\ drm.swaps > 0 /\ drm.last_ret = 0) =>
                /\ drm.current_bo # NULL
                /\ drm.locked = {drm.current_bo})
    /\ [][ /\ (drm'.swaps = drm.swaps + 1 /\ drm'.last_ret = 0) =>
                /\ drm'.current_bo \notin drm.locked
                /\ drm.current_bo \notin drm'.locked
           /\ (drm'.swaps = drm.swaps + 1 /\ drm'.last_ret # 0) =>
                /\ drm'.current_bo = drm.current_bo
                /\ drm'.locked = drm.locked
         ]_vars

\* drm_cleanup ran after a successful swap that replaced an earlier buffer
\* and released it
C37_Witness ==
    /\ drm.phase = "cleaned"
    /\ drm.swaps >= 2
    /\ drm.last_ret = 0
    /\ drm.current_bo # NULL

\* a lock has just failed while a buffer from an earlier swap is held
C37_WitnessFailedLock ==
    /\ drm.phase = "open"
    /\ drm.last_ret # 0
    /\ drm.current_bo # NULL
    /\ drm.locked = {drm.current_bo}

\* C38: a hw_decoder_get_frame call that returns anything other than
\* HW_DECODER_OK acquires no frame reference for the caller and leaves
\* frames_decoded unchanged; frames_decoded always equals the number of
\* hw_decoder_get_frame calls that returned HW_DECODER_OK.
C38_CountsOnlyReturnedFrames ==
    /\ [](dec.frames_decoded = Len(acquired))
    /\ [][ /\ acquired' = acquired =>
                /\ clones' \subseteq clones
                /\ dec'.frames_decoded = dec.frames_decoded
           /\ acquired' # acquired =>
                /\ Len(acquired') = Len(acquired) + 1
                /\ dec'.frames_decoded = dec.frames_decoded + 1
         ]_vars

\* a picture was received from the codec but hw_decoder_get_frame returned an
\* error (DMABUF extraction or av_frame_clone failed), after an earlier call
\* had returned OK
C38_Witness ==
    /\ dec.ctx_frame # NULL
    /\ \A i \in 1..Len(acquired) : acquired[i] # dec.ctx_frame
    /\ dec.frames_decoded >= 1

\* avcodec_receive_frame had no picture (EAGAIN or an error) while a frame
\* returned earlier is still held
C38_WitnessNoPicture ==
    /\ dec.ctx_frame = NULL
    /\ dec.frames_decoded >= 1
    /\ clones # {}

====
